---- MODULE Spec2Model ----
(***************************************************************************)
(* State-machine model of the call cache of vapi-call-viewer:              *)
(*   - the record store of cache.py (one SQLite table keyed by call id),   *)
(*   - CacheUpdateManager of calls.py (start_background_update and the     *)
(*     refresh cycle _check_and_update_cache),                             *)
(*   - vapi_calls of calls.py (the cache-first read, "getCalls").          *)
(* Every I/O operation of the code (connectivity probe, store read, store  *)
(* write, remote request, message post) and every access to a manager's    *)
(* shared `updating` flag is one atomic step of the thread executing it.   *)
(***************************************************************************)
EXTENDS Integers, Sequences, FiniteSets, TLC

VARIABLES
    cfg,      \* the scenario: which threads exist and which call ids the remote knows
    store,    \* the cache file: [file, rows], rows maps a call id to its row
    now,      \* the wall clock read by datetime.now()
    mgr,      \* the CacheUpdateManager objects: updating, offline, fg, last_update
    cur,      \* the object the module-level name _cache_manager is bound to
    th,       \* per thread: position in the code and local variables
    inbox,    \* CacheUpdated messages posted to the app, oldest first
    ops,      \* number of API invocations made so far
    ui,       \* the app's display: the cache status line, the messages handled
    eval      \* a pure function under examination: its argument and its result

vars == <<cfg, store, now, mgr, cur, th, inbox, ops, ui, eval>>

(***************************************************************************)
(* Bounds and domains                                                      *)
(***************************************************************************)
MaxOps == 2           \* API invocations (vapi_calls, action_refresh, ...) per behaviour

AllThreads == {1, 2, 3}
AllIds == {"a", "b"}
Vals == {"v1", "v2"}  \* the payload of a call: caller, transcript, summary, end, cost, ...
Starts == {1, 2}      \* the call's Start, as ordered by its stored ISO text

\* The scenarios checked. A scenario fixes the threads that exist, the calls
\* the remote can return, the API the callers use, the arguments vapi_calls is
\* called with, the cache files the program can find, whether vapi_calls is
\* called by CallBrowserApp.__init__ only (ctor: it is then the first
\* operation, the refreshes follow it), the local time zone, whether the
\* environment holds VAPI_API_KEY, the arguments the app constructs its
\* manager with (foreground_updates, offline), what the connectivity probe
\* can meet, what the short-lookback request can give beside a call, and
\* whether the app is running (ui) or only constructed.
\*   Reader:     one caller, the full data domain, the app run with --offline
\*   Foreground: one caller refreshing in foreground mode, the full data domain
\*   Mixed:      two threads, every API and every manager, one remote call
\*   Background: three threads refreshing the app's manager in the background
\*   Startup:    the app started with foreground updates: CallBrowserApp.__init__
\*               calls vapi_calls(skip_api_check=True, ...), the timers refresh
\*   StoreUser:  one caller of init_db and of vapi_calls, in a zone where the
\*               calls' starts lie in the hour daylight saving time ends, and
\*               a remote that can answer with an error status
\*   NoKey:      one caller, VAPI_API_KEY is not set, every probe outcome
\*   Importer:   two threads calling init_db beside vapi_calls
\*   Display:    the app is running: its widgets exist, its message loop
\*               handles CacheUpdated, the timers and the key refresh
\*   Direct:     one caller of a manager constructed with offline=True, which
\*               also runs the cycle directly

\* The states of the cache file.
\* "missing": no file at CACHE_DB; "notable": a file without the calls table
\* (a zero-length file); "corrupt": a file that is not a database; "ok": the
\* table exists.
FileStates == {"missing", "notable", "corrupt", "ok"}

\* What httpx.head("https://1.1.1.1") can meet: a response of any status, or
\* an exception.
HeadResults == {"response_2xx", "response_5xx", "NetworkError", "TimeoutException",
                "Exception"}

\* vapi_calls(skip_api_check, foreground_updates, offline)
AllArgs == [skip : BOOLEAN, fg : BOOLEAN, offline : BOOLEAN]

Reader ==
    [threads |-> {1}, ids |-> AllIds, vals |-> Vals, starts |-> Starts,
     api |-> {"vapi_calls", "action_refresh"},
     args |-> AllArgs, files |-> FileStates, ctor |-> FALSE,
     zone |-> "fixed", key |-> TRUE,
     appfg |-> {FALSE}, appoff |-> {TRUE},
     heads |-> {"response_2xx", "NetworkError"}, checks |-> {"err", "empty"}, ui |-> FALSE]

Foreground ==
    [threads |-> {1}, ids |-> AllIds, vals |-> {"v2"}, starts |-> Starts,
     api |-> {"action_refresh"},
     args |-> AllArgs, files |-> FileStates, ctor |-> FALSE,
     zone |-> "fixed", key |-> TRUE,
     appfg |-> {TRUE}, appoff |-> {FALSE},
     heads |-> {"response_2xx", "NetworkError"}, checks |-> {"err", "empty"}, ui |-> FALSE]

Mixed ==
    [threads |-> {1, 2}, ids |-> {"a"}, vals |-> {"v1"}, starts |-> {1},
     api |-> {"vapi_calls", "action_refresh"},
     args |-> AllArgs, files |-> FileStates, ctor |-> FALSE,
     zone |-> "fixed", key |-> TRUE,
     appfg |-> BOOLEAN, appoff |-> BOOLEAN,
     heads |-> {"response_2xx", "NetworkError"}, checks |-> {"err", "empty"}, ui |-> FALSE]

Background ==
    [threads |-> AllThreads, ids |-> {"a"}, vals |-> {"v1"}, starts |-> {1},
     api |-> {"action_refresh"},
     args |-> AllArgs, files |-> FileStates, ctor |-> FALSE,
     zone |-> "fixed", key |-> TRUE,
     appfg |-> {FALSE}, appoff |-> {FALSE},
     heads |-> {"response_2xx", "NetworkError"}, checks |-> {"err", "empty"}, ui |-> FALSE]

Direct ==
    [threads |-> {1}, ids |-> {"a"}, vals |-> {"v1"}, starts |-> {1},
     api |-> {"_check_and_update_cache", "action_refresh"},
     args |-> AllArgs, files |-> FileStates, ctor |-> FALSE,
     zone |-> "fixed", key |-> TRUE,
     appfg |-> BOOLEAN, appoff |-> {TRUE},
     heads |-> {"response_2xx", "NetworkError"}, checks |-> {"err", "empty"}, ui |-> FALSE]

Startup ==
    [threads |-> {1, 2}, ids |-> AllIds, vals |-> {"v1"}, starts |-> {1},
     api |-> {"vapi_calls", "action_refresh"},
     args |-> {[skip |-> TRUE, fg |-> TRUE, offline |-> FALSE]}, files |-> {"ok"},
     ctor |-> TRUE, zone |-> "fixed", key |-> TRUE,
     appfg |-> {TRUE}, appoff |-> {FALSE},
     heads |-> {"response_2xx", "NetworkError"}, checks |-> {"err", "empty"}, ui |-> FALSE]

StoreUser ==
    [threads |-> {1}, ids |-> AllIds, vals |-> {"v1"}, starts |-> Starts,
     api |-> {"init_db", "vapi_calls"},
     args |-> {[skip |-> FALSE, fg |-> FALSE, offline |-> FALSE]},
     files |-> FileStates, ctor |-> FALSE, zone |-> "fallback", key |-> TRUE,
     appfg |-> {FALSE}, appoff |-> {FALSE},
     heads |-> {"response_2xx", "NetworkError"},
     checks |-> {"err", "empty", "bad_empty"}, ui |-> FALSE]

NoKey ==
    [threads |-> {1}, ids |-> {"a"}, vals |-> {"v1"}, starts |-> {1},
     api |-> {"vapi_calls", "action_refresh"},
     args |-> AllArgs, files |-> FileStates, ctor |-> FALSE,
     zone |-> "fixed", key |-> FALSE,
     appfg |-> {TRUE}, appoff |-> BOOLEAN,
     heads |-> HeadResults, checks |-> {"err", "empty"}, ui |-> FALSE]

Importer ==
    [threads |-> {1, 2}, ids |-> AllIds, vals |-> {"v1"}, starts |-> {1},
     api |-> {"init_db", "vapi_calls"},
     args |-> {[skip |-> FALSE, fg |-> FALSE, offline |-> FALSE]},
     files |-> FileStates, ctor |-> FALSE, zone |-> "fixed", key |-> TRUE,
     appfg |-> {FALSE}, appoff |-> {FALSE},
     heads |-> {"response_2xx"}, checks |-> {"err", "empty"}, ui |-> FALSE]

Display ==
    [threads |-> {1, 2}, ids |-> {"a"}, vals |-> {"v1"}, starts |-> {1},
     api |-> {"action_refresh"},
     args |-> AllArgs, files |-> {"missing", "ok"}, ctor |-> FALSE,
     zone |-> "fixed", key |-> TRUE,
     appfg |-> BOOLEAN, appoff |-> BOOLEAN,
     heads |-> {"response_2xx", "NetworkError"}, checks |-> {"err", "empty"}, ui |-> TRUE]

Configs ==
    {Reader, Foreground, Mixed, Background, Direct, Startup, StoreUser, NoKey, Importer,
     Display}

Mgrs == {"app", "mod0", "mod1"}

\* models.Call
Call == [id : AllIds, val : Vals, start : Starts]

CallsOf(c) == [id : c.ids, val : c.vals, start : c.starts]

Ids(calls) == { calls[i].id : i \in 1..Len(calls) }

\* The lists a remote query can decode to: calls with pairwise distinct ids.
FetchLists(c) ==
    { <<>> } \cup { <<x>> : x \in CallsOf(c) }
    \cup { p \in CallsOf(c) \X CallsOf(c) : p[1].id # p[2].id }

(***************************************************************************)
(* Record store (cache.py)                                                 *)
(***************************************************************************)
RowToCall(i, r) == [id |-> i, val |-> r.val, start |-> r.start]

\* Mutant: the table is dropped and created again.
init_dbRecreates(s, env) ==
    IF env = "openfail"
    THEN [raised |-> TRUE, ok |-> FALSE, store |-> s]
    ELSE IF s.file = "corrupt"
    THEN [raised |-> FALSE, ok |-> FALSE, store |-> s]
    ELSE [raised |-> FALSE, ok |-> TRUE, store |-> [file |-> "ok", rows |-> <<>>]]

\* init_db: CREATE TABLE IF NOT EXISTS; False on sqlite3.Error. When
\* sqlite3.connect raises (env "openfail"), `conn` is unbound and the
\* handler's `if conn:` raises UnboundLocalError out of the function.
init_db(s, env) ==
    IF env = "openfail"
    THEN [raised |-> TRUE, ok |-> FALSE, store |-> s]
    ELSE IF s.file = "corrupt"
    THEN [raised |-> FALSE, ok |-> FALSE, store |-> s]
    ELSE [raised |-> FALSE, ok |-> TRUE, store |-> [s EXCEPT !.file = "ok"]]

\* The row INSERT OR REPLACE leaves for id i after the batch `calls`.
LastOf(calls, i) ==
    LET k == CHOOSE k \in 1..Len(calls) :
                 /\ calls[k].id = i
                 /\ \A j \in (k+1)..Len(calls) : calls[j].id # i
    IN  calls[k]

\* Mutant: the batch replaces the table (DELETE, then INSERT).
UpsertRowsReplace(rows, calls, t) ==
    [ i \in Ids(calls) |->
        [val |-> LastOf(calls, i).val, start |-> LastOf(calls, i).start, cached_at |-> t] ]

\* Mutant: INSERT OR IGNORE, a stored id keeps its old row.
UpsertRowsKeepOld(rows, calls, t) ==
    [ i \in (DOMAIN rows) \cup Ids(calls) |->
        IF i \in DOMAIN rows
        THEN rows[i]
        ELSE [val |-> LastOf(calls, i).val, start |-> LastOf(calls, i).start, cached_at |-> t] ]

\* Mutant: a replaced row keeps the cached_at of its first insertion.
UpsertRowsKeepsStamp(rows, calls, t) ==
    [ i \in (DOMAIN rows) \cup Ids(calls) |->
        IF i \in Ids(calls)
        THEN [val |-> LastOf(calls, i).val, start |-> LastOf(calls, i).start,
              cached_at |-> IF i \in DOMAIN rows THEN rows[i].cached_at ELSE t]
        ELSE rows[i] ]

UpsertRows(rows, calls, t) ==
    [ i \in (DOMAIN rows) \cup Ids(calls) |->
        IF i \in Ids(calls)
        THEN [val |-> LastOf(calls, i).val, start |-> LastOf(calls, i).start, cached_at |-> t]
        ELSE rows[i] ]

\* The outcomes the environment can give one cache_calls call.
\*   "ok":       every statement succeeds
\*   "sqlerr":   a statement of the batch or the commit raises sqlite3.Error
\*   "openfail": sqlite3.connect raises (the file cannot be opened)
WriteEnvs == {"ok", "sqlerr", "openfail"}

\* Line 94-109: the table as the writing connection sees it after the first
\* k INSERT OR REPLACE statements of the batch, before conn.commit().
Pending(rows, calls, k, t) == UpsertRows(rows, SubSeq(calls, 1, k), t)

\* The statement of a batch that raises under "sqlerr": its last INSERT, or
\* the commit of an empty batch.
FailsAt(calls) == IF Len(calls) = 0 THEN 0 ELSE Len(calls) - 1

\* Mutant: the statements executed before the error stay in the table.
RollbackKeepsPending(rows, pending) == pending

\* Line 115-118: the handler closes the connection without a commit, and
\* SQLite rolls the open transaction back: the table is as before the batch.
Rollback(rows, pending) == rows

\* cache_calls(calls, cache_time): [raised, store].
\* A failed connect leaves `conn` unbound, so the handler's `if conn:` raises
\* UnboundLocalError out of the function; any other sqlite3.Error is logged
\* and the uncommitted batch is dropped when the connection is closed.
cache_calls(s, calls, t, env) ==
    LET i == init_db(s, env) IN
    IF i.raised
    THEN [raised |-> TRUE, store |-> i.store]
    ELSE IF ~i.ok
    THEN [raised |-> FALSE, store |-> i.store]
    ELSE IF env = "sqlerr"
    THEN [raised |-> FALSE,
          store |-> [file |-> "ok",
                     rows |-> Rollback(i.store.rows,
                                       Pending(i.store.rows, calls, FailsAt(calls), t))]]
    ELSE [raised |-> FALSE,
          store |-> [file |-> "ok", rows |-> UpsertRows(i.store.rows, calls, t)]]

\* cache_time.isoformat(), the text stored in cached_at. The clock counts
\* half seconds; isoformat() writes the fraction only when it is not zero:
\* <<s>> stands for "...:ss" and <<s, 5>> for "...:ss.500000".
IsoText(t) == IF t % 2 = 0 THEN <<t \div 2>> ELSE <<t \div 2, 5>>

\* SQLite's comparison of two texts: the first differing position decides,
\* and a proper prefix sorts first.
TextLeq(x, y) ==
    \/ \E k \in 1..Len(x) :
          /\ k <= Len(y)
          /\ \A j \in 1..(k-1) : x[j] = y[j]
          /\ x[k] < y[k]
    \/ /\ Len(x) <= Len(y)
       /\ \A j \in 1..Len(x) : x[j] = y[j]

\* Mutant: the rows are listed by the calls' own start, newest first.
ListOrdersByStart(rows) ==
    LET n == Cardinality(DOMAIN rows)
    IN  { q \in [1..n -> DOMAIN rows] :
            /\ \A i, j \in 1..n : i # j => q[i] # q[j]
            /\ \A i, j \in 1..n : i < j => rows[q[i]].start >= rows[q[j]].start }

\* The orders SELECT * ... ORDER BY datetime(cached_at) DESC can return the
\* rows in; DATETIME is replaced by the identity, so the stored texts are
\* compared.
ListOrders(rows) ==
    LET n == Cardinality(DOMAIN rows)
    IN  { q \in [1..n -> DOMAIN rows] :
            /\ \A i, j \in 1..n : i # j => q[i] # q[j]
            /\ \A i, j \in 1..n :
                  i < j => TextLeq(IsoText(rows[q[j]].cached_at),
                                   IsoText(rows[q[i]].cached_at)) }

\* get_cached_calls(max_age_minutes): the set of possible outcomes
\* [kind, calls]; kind "none" is Python's None, "raise" an sqlite3 error.
get_cached_calls(s, max_age) ==
    IF s.file = "missing"
    THEN { [kind |-> "none", calls |-> <<>>] }
    ELSE IF s.file \in {"notable", "corrupt"}
    THEN { [kind |-> "raise", calls |-> <<>>] }
    ELSE IF DOMAIN s.rows = {}
    THEN { [kind |-> "none", calls |-> <<>>] }
    ELSE { [kind |-> "list",
            calls |-> [k \in 1..Cardinality(DOMAIN s.rows) |-> RowToCall(q[k], s.rows[q[k]])]]
           : q \in ListOrders(s.rows) }

\* call.Start.isoformat(), the text stored in start: the local wall clock
\* and the zone's offset, <<hour, minute, offset>> for "...Thh:mm:00-0o:00"
\* (parse_call converts the remote's UTC instant with tz.tzlocal()).
\*   "fixed":    the offset is the same for every instant
\*   "fallback": instant 1 is 01:45 before the clocks are set back (UTC-7),
\*               instant 2 is 01:15 after it (UTC-8)
StartText(st) ==
    IF cfg.zone = "fallback"
    THEN <<1, IF st = 1 THEN 45 ELSE 15, 6 + st>>
    ELSE <<st, 0, 8>>

\* get_latest_cached_call: SELECT * ... ORDER BY start DESC LIMIT 1.
\* The set of possible outcomes [kind, id]; id "" stands for no call.
get_latest_cached_call(s) ==
    IF s.file = "missing"
    THEN { [kind |-> "none", id |-> ""] }
    ELSE IF s.file \in {"notable", "corrupt"}
    THEN { [kind |-> "raise", id |-> ""] }
    ELSE IF DOMAIN s.rows = {}
    THEN { [kind |-> "none", id |-> ""] }
    ELSE { [kind |-> "call", id |-> i] :
           i \in { i \in DOMAIN s.rows :
                     \A j \in DOMAIN s.rows :
                        TextLeq(StartText(s.rows[j].start), StartText(s.rows[i].start)) } }

\* Python's None, where a text is expected.
None == <<>>

\* Mutant: MIN(cached_at) returns the greatest text.
MinCachedAtIsMax(rows) ==
    IF DOMAIN rows = {} THEN None
    ELSE CHOOSE x \in { IsoText(rows[i].cached_at) : i \in DOMAIN rows } :
            \A j \in DOMAIN rows : TextLeq(IsoText(rows[j].cached_at), x)

\* Line 206: SELECT MIN(cached_at) FROM calls, the least stored text (NULL
\* over an empty table).
MinCachedAt(rows) ==
    IF DOMAIN rows = {} THEN None
    ELSE CHOOSE x \in { IsoText(rows[i].cached_at) : i \in DOMAIN rows } :
            \A j \in DOMAIN rows : TextLeq(x, IsoText(rows[j].cached_at))

\* Line 206: SELECT MAX(cached_at) FROM calls.
MaxCachedAt(rows) ==
    IF DOMAIN rows = {} THEN None
    ELSE CHOOSE x \in { IsoText(rows[i].cached_at) : i \in DOMAIN rows } :
            \A j \in DOMAIN rows : TextLeq(IsoText(rows[j].cached_at), x)

\* get_cache_stats(): the dict it returns (without the file's size and
\* path) and the store it leaves.
get_cache_stats(s) ==
    LET stats == [exists |-> FALSE, call_count |-> 0, oldest_call |-> None,
                  newest_call |-> None, status |-> "not_exists", store |-> s]
    IN  IF s.file = "missing"
        THEN stats
        ELSE IF s.file = "notable"
        THEN [stats EXCEPT !.exists = TRUE]
        ELSE IF s.file = "corrupt"
        THEN [stats EXCEPT !.exists = TRUE, !.status = "error_db_operation"]
        ELSE [stats EXCEPT !.exists = TRUE,
                           !.call_count = Cardinality(DOMAIN s.rows),
                           !.oldest_call = MinCachedAt(s.rows),
                           !.newest_call = MaxCachedAt(s.rows),
                           !.status = "ok"]

(***************************************************************************)
(* Threads                                                                 *)
(***************************************************************************)
NoList == [kind |-> "none", calls |-> <<>>]

\* A thread that runs nothing. The fields are the locals of the function the
\* thread executes (m is `self`; "global" is the not yet evaluated name
\* _cache_manager; head is what the probe's HEAD request met, kept until the
\* next step) and the counts of the I/O it has issued in its current call.
IdleThread ==
    [pc |-> "idle", m |-> "", fgcall |-> FALSE,
     skip |-> FALSE, fg |-> FALSE, offline |-> FALSE, head |-> "", net |-> FALSE,
     cached |-> NoList, rid |-> "", lid |-> "", fetched |-> <<>>,
     got |-> FALSE, ret |-> <<>>, ok |-> FALSE,
     probes |-> 0, gets |-> 0, fulls |-> 0, writes |-> 0]

Threads == cfg.threads

Free(t) == th[t].pc = "idle"

\* Threads are interchangeable: new work goes to the first thread that runs
\* nothing.
FirstFree(t) == Free(t) /\ \A u \in Threads : Free(u) => t <= u

NewManager(fg, offline) ==
    [updating |-> FALSE, offline |-> offline, fg |-> fg, last_update |-> 0]

\* CacheUpdateManager.app: only the app's own manager has a subscriber.
HasApp(m) == m = "app"

(***************************************************************************)
(* is_network_available                                                    *)
(***************************************************************************)
\* Mutant: only a success status counts as reachable.
is_network_availableChecksStatus(h) ==
    [raised |-> FALSE, up |-> h = "response_2xx"]

\* Line 118-127: True after any response, False in each except clause.
is_network_available(h) ==
    IF h \in {"response_2xx", "response_5xx"}
    THEN [raised |-> FALSE, up |-> TRUE]
    ELSE IF h \in {"NetworkError", "TimeoutException"}
    THEN [raised |-> FALSE, up |-> FALSE]
    ELSE [raised |-> FALSE, up |-> FALSE]

(***************************************************************************)
(* The remote requests                                                     *)
(***************************************************************************)
\* Mutant: a missing variable is sent as an empty authorization header.
KeyErrorNever(key) == FALSE

\* os.environ['VAPI_API_KEY'] raises KeyError when the variable is not set.
KeyError(key) == ~key

\* The number of httpx.get calls a request step makes (the step itself is
\* counted in fulls when it is the full fetch).
Sent == IF KeyError(cfg.key) THEN 0 ELSE 1

(***************************************************************************)
(* CacheUpdateManager.start_background_update                              *)
(***************************************************************************)
\* Mutant: the guard tests only self.updating.
StartRefusedIgnoresOffline(r) == r.updating

\* `if self.updating or self.offline`
StartRefused(r) == r.updating \/ r.offline

\* Line 143-146: evaluate the guard; refuse with False.
StartGuard(t) ==
    /\ th[t].pc = "s_guard"
    /\ LET m == IF th[t].m = "global" THEN cur ELSE th[t].m
       IN  th' = [th EXCEPT ![t] =
                    IF StartRefused(mgr[m])
                    THEN [@ EXCEPT !.pc = "s_ret", !.m = m, !.ok = FALSE]
                    ELSE [@ EXCEPT !.pc = "s_set", !.m = m]]
    /\ UNCHANGED <<ui, eval, cfg, store, now, mgr, cur, inbox, ops>>

\* Line 148-160: set the flag, then run the cycle in this thread (foreground)
\* or in a new thread.
StartSet(t) ==
    /\ th[t].pc = "s_set"
    /\ LET m == th[t].m IN
       /\ mgr' = [mgr EXCEPT ![m].updating = TRUE]
       /\ IF mgr[m].fg
          THEN th' = [th EXCEPT ![t] = [@ EXCEPT !.pc = "c_probe", !.fgcall = TRUE]]
          ELSE \E u \in Threads :
                 /\ FirstFree(u)
                 /\ th' = [th EXCEPT ![t] = [@ EXCEPT !.pc = "s_ret", !.ok = TRUE],
                                     ![u] = [IdleThread EXCEPT !.pc = "c_probe", !.m = m]]
    /\ UNCHANGED <<ui, eval, cfg, store, now, cur, inbox, ops>>

\* start_background_update returns to its caller.
StartReturn(t) ==
    /\ th[t].pc = "s_ret"
    /\ th' = [th EXCEPT ![t] = IdleThread]
    /\ UNCHANGED <<ui, eval, cfg, store, now, mgr, cur, inbox, ops>>

(***************************************************************************)
(* CacheUpdateManager._check_and_update_cache                              *)
(***************************************************************************)
\* The thread's record when _check_and_update_cache returns: a foreground
\* call goes on to `return True` of start_background_update, a background
\* thread ends.
CycleEnd(r) ==
    IF r.fgcall
    THEN [IdleThread EXCEPT !.pc = "s_ret", !.m = r.m, !.ok = TRUE]
    ELSE IdleThread

\* Line 164-169: the offline guard, then the connectivity probe.
CycleProbe(t) ==
    /\ th[t].pc = "c_probe"
    /\ LET m == th[t].m IN
       \/ /\ mgr[m].offline
          /\ mgr' = [mgr EXCEPT ![m].updating = FALSE]
          /\ th' = [th EXCEPT ![t] = CycleEnd(@)]
       \/ /\ ~mgr[m].offline
          /\ \E h \in cfg.heads :
               LET n == is_network_available(h) IN
               /\ th' = [th EXCEPT ![t] =
                           IF n.raised THEN IdleThread
                           ELSE IF n.up
                           THEN [@ EXCEPT !.pc = "c_read", !.head = h, !.net = TRUE,
                                          !.probes = @ + 1]
                           ELSE [@ EXCEPT !.pc = "c_down", !.head = h, !.probes = @ + 1]]
               /\ mgr' = mgr
    /\ UNCHANGED <<ui, eval, cfg, store, now, cur, inbox, ops>>

\* Mutant: the cycle goes on although the probe failed.
CycleDownContinues(t) ==
    /\ th[t].pc = "c_down"
    /\ th' = [th EXCEPT ![t] = [@ EXCEPT !.pc = "c_read", !.head = ""]]
    /\ UNCHANGED <<ui, eval, cfg, store, now, mgr, cur, inbox, ops>>

\* Line 170-173: the network is unreachable: self.updating = False; return
\* (before the try statement, so its finally clause is not executed).
CycleDown(t) ==
    /\ th[t].pc = "c_down"
    /\ mgr' = [mgr EXCEPT ![th[t].m].updating = FALSE]
    /\ th' = [th EXCEPT ![t] = CycleEnd(@)]
    /\ UNCHANGED <<ui, eval, cfg, store, now, cur, inbox, ops>>

\* Line 182-183: cached_calls = get_cached_calls().
CycleRead(t) ==
    /\ th[t].pc = "c_read"
    /\ \E c \in get_cached_calls(store, 0) :
         th' = [th EXCEPT ![t] =
                  IF c.kind = "raise" THEN [@ EXCEPT !.pc = "c_fin", !.head = ""]
                  ELSE IF c.kind = "none" THEN [@ EXCEPT !.pc = "c_fetch", !.head = ""]
                  ELSE [@ EXCEPT !.pc = "c_check", !.head = ""]]
    /\ UNCHANGED <<ui, eval, cfg, store, now, mgr, cur, inbox, ops>>

\* What the short-lookback request (limit 1) gives: an error (transport,
\* or a body that does not decode), a success response with an empty list, a
\* non-2xx response whose body decodes to an empty JSON value, or the id of
\* the most recent remote call.  Without the credential no request is built.
CheckResults ==
    IF KeyError(cfg.key) THEN {"err"} ELSE cfg.checks \cup cfg.ids

\* Mutant: an empty answer is taken for a call the cache does not hold.
NoRecentCallsIgnored(r) == FALSE

\* `if not latest_api_call` / `if latest_api_call_data ... else`
\* The status of the response is not looked at (no raise_for_status).
NoRecentCalls(r) == r \in {"empty", "bad_empty"}

\* What the check tells its caller: an exception, "no new calls", or the id
\* to compare with the newest cached call.
CheckReport(r) ==
    IF r = "err" THEN "error"
    ELSE IF NoRecentCalls(r) THEN "up to date"
    ELSE "compare"

\* Line 207, 249-259: _check_for_new_calls up to the remote answer.
CycleCheck(t) ==
    /\ th[t].pc = "c_check"
    /\ \E r \in CheckResults :
         th' = [th EXCEPT ![t] =
                  IF CheckReport(r) \in {"error", "up to date"}
                  THEN [@ EXCEPT !.pc = "c_fin", !.gets = @ + Sent, !.rid = r]
                  ELSE [@ EXCEPT !.pc = "c_latest", !.gets = @ + Sent, !.rid = r]]
    /\ UNCHANGED <<ui, eval, cfg, store, now, mgr, cur, inbox, ops>>

\* Mutant: the comparison is inverted.
SameNewestInverted(latest, rid) == latest.kind = "call" /\ latest.id # rid

\* `latest_cached_call and latest_api_call.id == latest_cached_call.id`
SameNewest(latest, rid) == latest.kind = "call" /\ latest.id = rid

\* Line 262-265, 208: compare with the newest cached call.
CycleLatest(t) ==
    /\ th[t].pc = "c_latest"
    /\ \E l \in get_latest_cached_call(store) :
         th' = [th EXCEPT ![t] =
                  IF l.kind = "raise" \/ SameNewest(l, th[t].rid)
                  THEN [@ EXCEPT !.pc = "c_fin", !.lid = l.id]
                  ELSE [@ EXCEPT !.pc = "c_fetch", !.lid = l.id]]
    /\ UNCHANGED <<ui, eval, cfg, store, now, mgr, cur, inbox, ops>>

\* What the full request decodes to: an error (transport, status, decoding)
\* or a list of calls.  Without the credential no request is built.
FetchResults ==
    IF KeyError(cfg.key) THEN { [ok |-> FALSE, calls |-> <<>>] }
    ELSE { [ok |-> FALSE, calls |-> <<>>] }
         \cup { [ok |-> TRUE, calls |-> l] : l \in FetchLists(cfg) }

\* Mutant: the cycle writes and notifies whatever the request gave.
CycleFetchAlwaysWrites(t) ==
    /\ th[t].pc = "c_fetch"
    /\ \E f \in FetchResults :
         th' = [th EXCEPT ![t] =
                  [@ EXCEPT !.pc = "c_write", !.gets = @ + Sent, !.fulls = @ + 1,
                            !.fetched = f.calls]]
    /\ UNCHANGED <<ui, eval, cfg, store, now, mgr, cur, inbox, ops>>

\* Line 190-191 and 215-216: new_calls = self._fetch_all_calls().
CycleFetch(t) ==
    /\ th[t].pc = "c_fetch"
    /\ \E f \in FetchResults :
         th' = [th EXCEPT ![t] =
                  IF f.ok /\ f.calls # <<>>
                  THEN [@ EXCEPT !.pc = "c_write", !.gets = @ + Sent, !.fulls = @ + 1,
                                 !.fetched = f.calls]
                  ELSE [@ EXCEPT !.pc = "c_fin", !.gets = @ + Sent, !.fulls = @ + 1]]
    /\ UNCHANGED <<ui, eval, cfg, store, now, mgr, cur, inbox, ops>>

\* Line 192 and 217: cache_calls(new_calls).
CycleWrite(t) ==
    /\ th[t].pc = "c_write"
    /\ \E env \in WriteEnvs :
         LET w == cache_calls(store, th[t].fetched, now, env) IN
         /\ store' = w.store
         /\ now' = IF w.store.rows # store.rows THEN now + 1 ELSE now
         /\ th' = [th EXCEPT ![t] =
                     IF w.raised
                     THEN [@ EXCEPT !.pc = "c_fin", !.writes = @ + 1]
                     ELSE [@ EXCEPT !.pc = "c_notify", !.writes = @ + 1]]
    /\ UNCHANGED <<ui, eval, cfg, mgr, cur, inbox, ops>>

\* Line 197 and 222, 283-286: self._notify_update(new_calls).
CycleNotify(t) ==
    /\ th[t].pc = "c_notify"
    /\ inbox' = IF HasApp(th[t].m) THEN Append(inbox, th[t].fetched) ELSE inbox
    /\ th' = [th EXCEPT ![t] = [@ EXCEPT !.pc = "c_fin"]]
    /\ UNCHANGED <<ui, eval, cfg, store, now, mgr, cur, ops>>

\* Mutant: the cycle ends without resetting self.updating.
CycleFinallyKeepsFlag(t) ==
    /\ th[t].pc = "c_fin"
    /\ th' = [th EXCEPT ![t] = [@ EXCEPT !.pc = "c_stamp"]]
    /\ UNCHANGED <<ui, eval, cfg, store, now, mgr, cur, inbox, ops>>

\* Line 240: finally: self.updating = False.
CycleFinally(t) ==
    /\ th[t].pc = "c_fin"
    /\ mgr' = [mgr EXCEPT ![th[t].m].updating = FALSE]
    /\ th' = [th EXCEPT ![t] = [@ EXCEPT !.pc = "c_stamp"]]
    /\ UNCHANGED <<ui, eval, cfg, store, now, cur, inbox, ops>>

\* Line 241: self.last_update = datetime.now().
CycleStamp(t) ==
    /\ th[t].pc = "c_stamp"
    /\ mgr' = [mgr EXCEPT ![th[t].m].last_update = now]
    /\ th' = [th EXCEPT ![t] = CycleEnd(@)]
    /\ UNCHANGED <<ui, eval, cfg, store, now, cur, inbox, ops>>

(***************************************************************************)
(* vapi_calls (getCalls)                                                   *)
(***************************************************************************)
\* Mutant: only the user's flag counts, the probe's answer is ignored.
EffectiveOfflineFlagOnly(offline, net) == offline

\* Mutant: only the probe's answer counts, the user's flag is ignored.
EffectiveOfflineProbeOnly(offline, net) == ~net

\* `effective_offline = offline or not network_up`
EffectiveOffline(offline, net) == offline \/ ~net

\* Mutant: the error handler returns the empty list whatever was cached.
CachedOrEmptyDropsCache(c) == <<>>

\* `return cached_calls` if cached_calls is not None, else `return []`
CachedOrEmpty(c) == IF c.kind = "list" THEN c.calls ELSE <<>>

\* A caller enters vapi_calls(skip_api_check, foreground_updates, offline).
CallVapiCalls(t) ==
    /\ "vapi_calls" \in cfg.api
    /\ cfg.ctor => ops = 0
    /\ FirstFree(t)
    /\ ops < MaxOps
    /\ ops' = ops + 1
    /\ \E a \in cfg.args :
         th' = [th EXCEPT ![t] =
                  [IdleThread EXCEPT !.pc = "g_probe", !.skip = a.skip, !.fg = a.fg,
                                     !.offline = a.offline]]
    /\ UNCHANGED <<ui, eval, cfg, store, now, mgr, cur, inbox>>

\* Line 298: network_up = is_network_available().
GetProbe(t) ==
    /\ th[t].pc = "g_probe"
    /\ \E h \in cfg.heads :
         LET n == is_network_available(h) IN
         th' = [th EXCEPT ![t] =
                  IF n.raised THEN [@ EXCEPT !.pc = "g_raised"]
                  ELSE [@ EXCEPT !.pc = "g_read", !.head = h, !.net = n.up,
                                 !.probes = @ + 1]]
    /\ UNCHANGED <<ui, eval, cfg, store, now, mgr, cur, inbox, ops>>

\* Line 304-329: cache stats, the foreground manager replacement, the cache
\* read (outside any try), and the offline branch.
GetRead(t) ==
    /\ th[t].pc = "g_read"
    /\ IF th[t].fg /\ ~mgr[cur].fg
       THEN /\ cur' = "mod1"
            /\ mgr' = [mgr EXCEPT !["mod1"] = NewManager(TRUE, th[t].offline)]
       ELSE UNCHANGED <<cur, mgr>>
    /\ \E c \in get_cached_calls(store, 0) :
         th' = [th EXCEPT ![t] =
                  IF c.kind = "raise"
                  THEN [@ EXCEPT !.pc = "g_raised", !.head = ""]
                  ELSE IF EffectiveOffline(th[t].offline, th[t].net)
                  THEN [@ EXCEPT !.pc = "g_ret", !.head = "", !.cached = c,
                                 !.ret = CachedOrEmpty(c)]
                  ELSE IF c.kind = "none"
                  THEN [@ EXCEPT !.pc = "g_fetch", !.head = "", !.cached = c]
                  ELSE IF th[t].skip
                  THEN [@ EXCEPT !.pc = "g_skip", !.head = "", !.cached = c]
                  ELSE [@ EXCEPT !.pc = "g_check", !.head = "", !.cached = c]]
    /\ UNCHANGED <<ui, eval, cfg, store, now, inbox, ops>>

\* Mutant: the flag is ignored, the call goes on to the short-lookback request.
GetSkipThenChecks(t) ==
    /\ th[t].pc = "g_skip"
    /\ th' = [th EXCEPT ![t] = [@ EXCEPT !.pc = "g_check"]]
    /\ UNCHANGED <<ui, eval, cfg, store, now, mgr, cur, inbox, ops>>

\* Line 339-346: skip the remote check; start a thread that calls
\* _cache_manager.start_background_update() unless the manager is updating.
GetSkip(t) ==
    /\ th[t].pc = "g_skip"
    /\ IF ~mgr[cur].updating
       THEN \E u \in Threads :
              /\ FirstFree(u)
              /\ th' = [th EXCEPT ![t] = [@ EXCEPT !.pc = "g_ret", !.ret = th[t].cached.calls],
                                  ![u] = [IdleThread EXCEPT !.pc = "s_guard", !.m = "global"]]
       ELSE th' = [th EXCEPT ![t] = [@ EXCEPT !.pc = "g_ret", !.ret = th[t].cached.calls]]
    /\ UNCHANGED <<ui, eval, cfg, store, now, mgr, cur, inbox, ops>>

\* Line 349-372: the short-lookback request.
GetCheck(t) ==
    /\ th[t].pc = "g_check"
    /\ \E r \in CheckResults :
         th' = [th EXCEPT ![t] =
                  IF CheckReport(r) \in {"error", "up to date"}
                  THEN [@ EXCEPT !.pc = "g_ret", !.gets = @ + Sent, !.rid = r,
                                 !.ret = th[t].cached.calls]
                  ELSE [@ EXCEPT !.pc = "g_latest", !.gets = @ + Sent, !.rid = r]]
    /\ UNCHANGED <<ui, eval, cfg, store, now, mgr, cur, inbox, ops>>

\* Line 360-366, 370-372: compare with the newest cached call.
GetLatest(t) ==
    /\ th[t].pc = "g_latest"
    /\ \E l \in get_latest_cached_call(store) :
         th' = [th EXCEPT ![t] =
                  IF l.kind = "raise" \/ SameNewest(l, th[t].rid)
                  THEN [@ EXCEPT !.pc = "g_ret", !.lid = l.id, !.ret = th[t].cached.calls]
                  ELSE [@ EXCEPT !.pc = "g_fetch", !.lid = l.id]]
    /\ UNCHANGED <<ui, eval, cfg, store, now, mgr, cur, inbox, ops>>

\* Line 375-386, 392-400: the full request.
GetFetch(t) ==
    /\ th[t].pc = "g_fetch"
    /\ \E f \in FetchResults :
         th' = [th EXCEPT ![t] =
                  IF f.ok
                  THEN [@ EXCEPT !.pc = "g_write", !.gets = @ + Sent, !.fulls = @ + 1,
                                 !.fetched = f.calls, !.got = TRUE]
                  ELSE [@ EXCEPT !.pc = "g_ret", !.gets = @ + Sent, !.fulls = @ + 1,
                                 !.ret = CachedOrEmpty(th[t].cached)]]
    /\ UNCHANGED <<ui, eval, cfg, store, now, mgr, cur, inbox, ops>>

\* Line 388-400: cache_calls(calls); return calls.
GetWrite(t) ==
    /\ th[t].pc = "g_write"
    /\ \E env \in WriteEnvs :
         LET w == cache_calls(store, th[t].fetched, now, env) IN
         /\ store' = w.store
         /\ now' = IF w.store.rows # store.rows THEN now + 1 ELSE now
         /\ th' = [th EXCEPT ![t] =
                     IF w.raised
                     THEN [@ EXCEPT !.pc = "g_ret", !.writes = @ + 1,
                                    !.ret = CachedOrEmpty(th[t].cached)]
                     ELSE [@ EXCEPT !.pc = "g_ret", !.writes = @ + 1,
                                    !.ret = th[t].fetched]]
    /\ UNCHANGED <<ui, eval, cfg, mgr, cur, inbox, ops>>

\* A caller (the import of cache, a test fixture) calls init_db().
CallInitDb(t) ==
    /\ "init_db" \in cfg.api
    /\ FirstFree(t)
    /\ ops < MaxOps
    /\ ops' = ops + 1
    /\ \E env \in {"ok", "openfail"} :
         LET i == init_db(store, env) IN
         /\ store' = i.store
         /\ th' = [th EXCEPT ![t] =
                     IF i.raised THEN [IdleThread EXCEPT !.pc = "i_raised"]
                     ELSE [IdleThread EXCEPT !.pc = "i_ret", !.ok = i.ok]]
    /\ UNCHANGED <<ui, eval, cfg, now, mgr, cur, inbox>>

\* init_db returns True or False, or its exception, to the caller.
InitDbReturn(t) ==
    /\ th[t].pc \in {"i_ret", "i_raised"}
    /\ th' = [th EXCEPT ![t] = IdleThread]
    /\ UNCHANGED <<ui, eval, cfg, store, now, mgr, cur, inbox, ops>>

\* vapi_calls returns its list, or its exception, to the caller.
GetReturn(t) ==
    /\ th[t].pc \in {"g_ret", "g_raised"}
    /\ th' = [th EXCEPT ![t] = IdleThread]
    /\ UNCHANGED <<ui, eval, cfg, store, now, mgr, cur, inbox, ops>>

(***************************************************************************)
(* The app (CallBrowserApp)                                                *)
(***************************************************************************)
\* CacheStatusWidget.set_status: the text of the status line.
set_status(status_text, updating, user_offline, network_down) ==
    IF user_offline THEN "Offline (user set)"
    ELSE IF network_down THEN "Offline (network down)"
    ELSE IF updating THEN "updating..."
    ELSE status_text

\* The thread of the app's message loop is inside action_refresh.
InRefresh ==
    \E t \in AllThreads :
        /\ th[t].m = "app"
        /\ th[t].pc \in {"s_guard", "s_set", "s_ret"} \/ th[t].fgcall

\* action_refresh (3-second timer, 5-minute timer, key binding) probes the
\* network, sets the status line when the widget exists, and calls
\* self.cache_manager.start_background_update().
action_refresh(t) ==
    /\ "action_refresh" \in cfg.api
    /\ cfg.ctor => ops > 0
    /\ cfg.ui => ~InRefresh
    /\ FirstFree(t)
    /\ ops < MaxOps
    /\ ops' = ops + 1
    /\ \E h \in cfg.heads :
         LET up == is_network_available(h).up
             off == mgr["app"].offline IN
         ui' = IF cfg.ui
               THEN [ui EXCEPT !.status = set_status("up to date", ~(off \/ ~up), off, ~up)]
               ELSE ui
    /\ th' = [th EXCEPT ![t] = [IdleThread EXCEPT !.pc = "s_guard", !.m = "app"]]
    /\ UNCHANGED <<eval, cfg, store, now, mgr, cur, inbox>>

\* on_cache_updated: the message loop handles the oldest CacheUpdated message
\* not handled yet: it probes the network and sets the status line.
on_cache_updated ==
    /\ cfg.ui
    /\ ~InRefresh
    /\ ui.handled < Len(inbox)
    /\ \E h \in cfg.heads :
         LET up == is_network_available(h).up
             off == mgr["app"].offline IN
         ui' = [status |-> set_status("updated", FALSE, off, ~up),
                handled |-> ui.handled + 1]
    /\ UNCHANGED <<eval, cfg, store, now, mgr, cur, th, inbox, ops>>

\* manager._check_and_update_cache() called directly, as the tests of the
\* offline guard do, on the app's manager.
check_and_update_cache(t) ==
    /\ "_check_and_update_cache" \in cfg.api
    /\ FirstFree(t)
    /\ ops < MaxOps
    /\ ops' = ops + 1
    /\ th' = [th EXCEPT ![t] = [IdleThread EXCEPT !.pc = "c_probe", !.m = "app"]]
    /\ UNCHANGED <<ui, eval, cfg, store, now, mgr, cur, inbox>>

(***************************************************************************)
(* Parsing of a remote call object (calls.py, models.py)                   *)
(***************************************************************************)
\* A raw call object of the remote's JSON. Every key other than id and
\* createdAt can be absent, hold JSON null, or hold a value:
\*   createdAt: the instant of creation, in minutes (UTC)
\*   endedAt:   "absent", "null", or the instant "earlier" (5 minutes before
\*              createdAt), "equal", "plus5" (5 minutes after)
\*   customer:  "absent", "null", "nonumber" ({}), "number" ({"number": ...})
\*   artifact:  "absent", "null", "empty" ({}), "text" ({"transcript": ...})
\*   analysis:  "absent", "null", "empty" ({}), "text" ({"summary": ...})
\*   cost:      "absent", "null", "number" (the number 2), "total"
\*              ({"total": 7}), "nototal" ({})
\*   costBreakdown: "absent", "null", "dict"
\*   endedReason:   "absent", "null", or the text of the code
\*   zone:      the machine's local zone (tz.tzlocal())
EndedReasons ==
    {"absent", "null", "customer-ended-call", "assistant-ended-call",
     "system-ended-call", "error", "silence-timed-out"}

RawCalls ==
    [id : {"a"}, createdAt : {10},
     endedAt : {"absent", "null", "earlier", "equal", "plus5"},
     customer : {"absent", "null", "nonumber", "number"},
     artifact : {"absent", "null", "text"},
     analysis : {"absent", "empty", "text"},
     cost : {"absent", "null", "number", "total", "nototal"},
     costBreakdown : {"absent", "dict"},
     endedReason : EndedReasons,
     zone : {"fixed", "fallback"}]

\* The instant an endedAt text denotes.
EndedAtInstant(raw) ==
    CASE raw.endedAt = "earlier" -> raw.createdAt - 5
      [] raw.endedAt = "plus5"   -> raw.createdAt + 5
      [] OTHER                   -> raw.createdAt

\* tz.tzlocal().utcoffset at a UTC instant, in minutes: "fixed" is UTC-8 all
\* year; in "fallback" the clocks are set back an hour at instant 12.
UtcOffset(zone, t) ==
    IF zone = "fallback" /\ t < 12 THEN 0 - 420 ELSE 0 - 480

\* Line 58-62: strptime(...).replace(tzinfo=tz.tzutc()).astimezone(tz.tzlocal()),
\* an aware datetime: the local wall clock, its offset, and the tzinfo object
\* (each call of tz.tzlocal() makes a new one).
ToLocal(zone, t, obj) ==
    [wall |-> t + UtcOffset(zone, t), off |-> UtcOffset(zone, t), tzinfo |-> obj]

\* models.Call.length_in_seconds: (End - Start).total_seconds(). Two aware
\* datetimes with the same tzinfo object subtract as wall clocks; with
\* different tzinfo objects each is first reduced by its utcoffset.
length_in_seconds(c) ==
    IF c.End.tzinfo = c.Start.tzinfo
    THEN (c.End.wall - c.Start.wall) * 60
    ELSE ((c.End.wall - c.End.off) - (c.Start.wall - c.Start.off)) * 60

\* Line 73-80: the display label of an end reason.
EndedReasonLabel(code) ==
    CASE code = "customer-ended-call"  -> "Customer Ended"
      [] code = "assistant-ended-call" -> "Assistant Ended"
      [] code = "system-ended-call"    -> "System Ended"
      [] code = "error"                -> "Error"
      [] OTHER                         -> code

NoCall ==
    [id |-> "", Caller |-> "", Transcript |-> "", Summary |-> "",
     Start |-> ToLocal("fixed", 0, "none"), End |-> ToLocal("fixed", 0, "none"),
     Cost |-> 0, CostBreakdown |-> "{}", EndedReason |-> ""]

Raised(exc) == [raised |-> TRUE, exc |-> exc, call |-> NoCall]

\* parse_call(call): [raised, exc, call]. The statements run in the order of
\* the source; the first that raises ends the call.
\*   line 52:  `"number" in call["customer"]` on None       -> TypeError
\*   line 59:  strptime(None, ...)                          -> TypeError
\*   line 64:  call.get("artifact", {}).get on None         -> AttributeError
\*   line 82:  Call(...) with None for a float, dict or str -> ValidationError
parse_call(raw) ==
    IF raw.customer = "null" THEN Raised("TypeError")
    ELSE IF raw.endedAt = "null" THEN Raised("TypeError")
    ELSE IF raw.artifact = "null" THEN Raised("AttributeError")
    ELSE IF raw.cost = "null" \/ raw.endedReason = "null" THEN Raised("ValidationError")
    ELSE [raised |-> FALSE, exc |-> "",
          call |->
            [id |-> raw.id,
             Caller |-> IF raw.customer = "number" THEN "+15550100" ELSE "",
             Transcript |-> IF raw.artifact = "text" THEN "transcript" ELSE "",
             Summary |-> IF raw.analysis = "text" THEN "summary" ELSE "",
             Start |-> ToLocal(raw.zone, raw.createdAt, "start"),
             End |-> ToLocal(raw.zone, EndedAtInstant(raw), "end"),
             Cost |-> CASE raw.cost = "number" -> 2
                        [] raw.cost = "total"  -> 7
                        [] OTHER               -> 0,
             CostBreakdown |-> IF raw.costBreakdown = "dict" THEN "{stt: 1}" ELSE "{}",
             EndedReason |-> IF raw.endedReason = "absent" THEN ""
                             ELSE EndedReasonLabel(raw.endedReason)]]

\* cache.py line 102-103 and 155-156: datetime.fromisoformat(d.isoformat()).
\* The text holds the wall clock and the offset; the datetime read back
\* carries a fixed-offset tzinfo object of its own.
FromIsoformat(d, obj) == [wall |-> d.wall, off |-> d.off, tzinfo |-> obj]

\* The record get_cached_calls builds from the row cache_calls wrote.
ReadBack(c) ==
    [c EXCEPT !.Start = FromIsoformat(c.Start, "start-read"),
              !.End = FromIsoformat(c.End, "end-read")]

(***************************************************************************)
(* Masking of the edit screen's content (calls.py, EditScreen)             *)
(***************************************************************************)
\* A JSON value: a string (t "str", its text in s), an object (t "obj", its
\* members in kids, each a key k and a value n) or a list (t "list", its
\* items in kids, each with the empty key). A key is the sequence of its
\* characters.
Str(x) == [t |-> "str", s |-> x, kids |-> <<>>]
Obj(members) == [t |-> "obj", s |-> "", kids |-> members]
List(items) == [t |-> "list", s |-> "", kids |-> items]
Kid(key, value) == [k |-> key, n |-> value]

Keys ==
    { <<"s", "e", "c", "r", "e", "t">>,
      <<"S", "e", "c", "r", "e", "t">>,
      <<"a", "C", "a", "l", "l", "I", "d">>,
      <<"c", "a", "l", "l", "I", "d">>,
      <<"P", "r", "o", "v", "i", "d", "e", "r", "I", "d">>,
      <<"n", "a", "m", "e">> }

\* The texts of string values: "guid" stands for a text the pattern
\* [0-9a-f]{8}-[0-9a-f]{4}-[0-9a-f]{4}-[0-9a-f]{4}-[0-9a-f]{12} matches whole.
Texts == {"v1", "guid"}

\* str.lower() over the characters of the keys.
LowerChar(c) ==
    CASE c = "S" -> "s" [] c = "C" -> "c" [] c = "I" -> "i" [] c = "P" -> "p"
      [] OTHER -> c

Lower(key) == [j \in 1..Len(key) |-> LowerChar(key[j])]

\* str.endswith(suffix)
EndsWith(key, suffix) ==
    /\ Len(key) >= Len(suffix)
    /\ SubSeq(key, Len(key) - Len(suffix) + 1, Len(key)) = suffix

\* Mutant: the key is compared with "secret" as it is written.
IsSecretKeyExact(key) ==
    \/ key = <<"s", "e", "c", "r", "e", "t">>
    \/ EndsWith(key, <<"C", "a", "l", "l", "I", "d">>)
    \/ EndsWith(key, <<"P", "r", "o", "v", "i", "d", "e", "r", "I", "d">>)

\* Line 692-696: key.lower() == "secret" or key.endswith("CallId") or
\* key.endswith("ProviderId").
IsSecretKey(key) ==
    \/ Lower(key) = <<"s", "e", "c", "r", "e", "t">>
    \/ EndsWith(key, <<"C", "a", "l", "l", "I", "d">>)
    \/ EndsWith(key, <<"P", "r", "o", "v", "i", "d", "e", "r", "I", "d">>)

\* Line 672-675: re.sub(guid_pattern, "xxx-xxx-xxx-xxx-xxx", content), over
\* the text of every string value of the content.
RECURSIVE GuidSub(_)
GuidSub(v) ==
    IF v.t = "str"
    THEN IF v.s = "guid" THEN Str("xxx-xxx-xxx-xxx-xxx") ELSE v
    ELSE [v EXCEPT !.kids = [j \in 1..Len(v.kids) |-> Kid(v.kids[j].k, GuidSub(v.kids[j].n))]]

\* EditScreen._mask_secrets_recursive(obj): the value obj holds afterwards.
RECURSIVE mask_secrets_recursive(_)
mask_secrets_recursive(obj) ==
    IF obj.t = "obj"
    THEN [obj EXCEPT !.kids =
            [j \in 1..Len(obj.kids) |->
               IF IsSecretKey(obj.kids[j].k)
               THEN Kid(obj.kids[j].k, Str("secret-masked"))
               ELSE IF obj.kids[j].n.t \in {"obj", "list"}
               THEN Kid(obj.kids[j].k, mask_secrets_recursive(obj.kids[j].n))
               ELSE obj.kids[j]]]
    ELSE IF obj.t = "list"
    THEN [obj EXCEPT !.kids =
            [j \in 1..Len(obj.kids) |->
               IF obj.kids[j].n.t \in {"obj", "list"}
               THEN Kid(obj.kids[j].k, mask_secrets_recursive(obj.kids[j].n))
               ELSE obj.kids[j]]]
    ELSE obj

\* Line 679: `"{" in content and "}" in content`, for a content whose
\* strings hold no brace: some object is written in it.
RECURSIVE HasBraces(_)
HasBraces(v) ==
    \/ v.t = "obj"
    \/ \E j \in 1..Len(v.kids) : HasBraces(v.kids[j].n)

\* EditScreen._mask_content(content) with self.mask_secrets = mask. The
\* content is [json, doc]: a JSON text of the value doc, or (json FALSE) a
\* text that json.loads rejects, whose words are the strings of doc.
mask_content(mask, content) ==
    IF ~mask
    THEN content
    ELSE LET subbed == GuidSub(content.doc) IN
         IF content.json /\ HasBraces(subbed)
         THEN [content EXCEPT !.doc = mask_secrets_recursive(subbed)]
         ELSE [content EXCEPT !.doc = subbed]

\* The contents examined: values nested up to three deep with one member or
\* item each, and flat objects and lists of two.
Nest(S) ==
    { Obj(<<Kid(k, v)>>) : k \in Keys, v \in S } \cup { List(<<Kid(<<>>, v)>>) : v \in S }

Pairs(S) ==
    { Obj(<<Kid(p[1], v), Kid(p[2], w)>>) :
        p \in { q \in Keys \X Keys : q[1] # q[2] }, v \in S, w \in S }
    \cup { List(<<Kid(<<>>, v), Kid(<<>>, w)>>) : v \in S, w \in S }

Scalars == { Str(x) : x \in Texts }

Docs ==
    LET L1 == Scalars \cup Nest(Scalars)
        L2 == Nest(L1)
        L3 == Nest(L2)
    IN  L1 \cup L2 \cup L3 \cup Pairs(Scalars)

Contents == [json : {TRUE}, doc : Docs] \cup [json : {FALSE}, doc : Scalars]

\* No pure function is under examination.
NoEval == [fn |-> "", arg |-> <<>>, res |-> <<>>, done |-> FALSE]

(***************************************************************************)
(* Specification                                                           *)
(***************************************************************************)
\* The stores the program can find when it starts: no file, an unusable
\* file, or a table holding rows written by earlier runs.
InitRows(c) ==
    UNION { [S -> [val : {"v1"}, start : c.starts, cached_at : {0}]] : S \in SUBSET c.ids }

InitIn(C) ==
    /\ cfg \in C
    /\ \E f \in cfg.files :
         \E r \in InitRows(cfg) :
            /\ (f # "ok" => r = <<>>)
            /\ store = [file |-> f, rows |-> r]
    /\ now = 1
    /\ \E fg \in cfg.appfg, offline \in cfg.appoff :
         mgr = [m \in Mgrs |-> IF m = "app" THEN NewManager(fg, offline)
                               ELSE NewManager(FALSE, FALSE)]
    /\ cur = "mod0"
    /\ th = [t \in AllThreads |-> IdleThread]
    /\ inbox = <<>>
    /\ ops = 0
    /\ \E h \in cfg.heads :
         ui = [status |-> IF cfg.ui
                          THEN set_status("loaded", FALSE, mgr["app"].offline,
                                          ~is_network_available(h).up)
                          ELSE "",
               handled |-> 0]
    /\ eval = NoEval

Init == InitIn(Configs)

Next ==
    \/ \E t \in Threads : CallVapiCalls(t)
    \/ \E t \in Threads : CallInitDb(t)
    \/ \E t \in Threads : InitDbReturn(t)
    \/ \E t \in Threads : GetProbe(t)
    \/ \E t \in Threads : GetRead(t)
    \/ \E t \in Threads : GetSkip(t)
    \/ \E t \in Threads : GetCheck(t)
    \/ \E t \in Threads : GetLatest(t)
    \/ \E t \in Threads : GetFetch(t)
    \/ \E t \in Threads : GetWrite(t)
    \/ \E t \in Threads : GetReturn(t)
    \/ \E t \in Threads : action_refresh(t)
    \/ \E t \in Threads : check_and_update_cache(t)
    \/ on_cache_updated
    \/ \E t \in Threads : StartGuard(t)
    \/ \E t \in Threads : StartSet(t)
    \/ \E t \in Threads : StartReturn(t)
    \/ \E t \in Threads : CycleProbe(t)
    \/ \E t \in Threads : CycleDown(t)
    \/ \E t \in Threads : CycleRead(t)
    \/ \E t \in Threads : CycleCheck(t)
    \/ \E t \in Threads : CycleLatest(t)
    \/ \E t \in Threads : CycleFetch(t)
    \/ \E t \in Threads : CycleWrite(t)
    \/ \E t \in Threads : CycleNotify(t)
    \/ \E t \in Threads : CycleFinally(t)
    \/ \E t \in Threads : CycleStamp(t)

Spec == Init /\ [][Next]_vars

\* The scenarios in which refresh cycles run: one caller in foreground mode
\* over two remote ids (the cycle finds new calls beside a populated cache),
\* two threads using both entry points with the app's manager in foreground
\* mode (vapi_calls starts background cycles on the module's manager),
\* three threads refreshing the app's manager in background mode, the
\* direct runs of the cycle, the callers of init_db, and the running app.
CycleConfigs ==
    {[Foreground EXCEPT !.starts = {1}],
     [Mixed EXCEPT !.appoff = {FALSE}, !.appfg = {TRUE}],
     Background,
     Direct,
     [Importer EXCEPT !.ids = {"a"}],
     Display}

FairInit == InitIn(CycleConfigs)

\* A step of the refresh cycle thread t executes.
CycleStep(t) ==
    \/ CycleProbe(t)
    \/ CycleDown(t)
    \/ CycleRead(t)
    \/ CycleCheck(t)
    \/ CycleLatest(t)
    \/ CycleFetch(t)
    \/ CycleWrite(t)
    \/ CycleNotify(t)
    \/ CycleFinally(t)
    \/ CycleStamp(t)

\* The scheduler runs every thread that can take a step, and every I/O call
\* of a cycle returns (the probe and the requests have timeouts, SQLite has a
\* busy timeout).
FairSpec == FairInit /\ [][Next]_vars /\ \A t \in AllThreads : WF_vars(CycleStep(t))

(***************************************************************************)
(* The pure functions, applied to each of their inputs                     *)
(***************************************************************************)
PureInit ==
    /\ cfg = Reader
    /\ store = [file |-> "missing", rows |-> <<>>]
    /\ now = 1
    /\ mgr = [m \in Mgrs |-> NewManager(FALSE, FALSE)]
    /\ cur = "mod0"
    /\ th = [t \in AllThreads |-> IdleThread]
    /\ inbox = <<>>
    /\ ops = 0
    /\ ui = [status |-> "", handled |-> 0]
    /\ \/ \E raw \in RawCalls :
            eval = [fn |-> "parse_call", arg |-> raw, res |-> <<>>, done |-> FALSE]
       \/ \E mask \in BOOLEAN, content \in Contents :
            eval = [fn |-> "mask_content", arg |-> [mask |-> mask, content |-> content],
                    res |-> <<>>, done |-> FALSE]

\* parse_call(raw) returns or raises.
CallParseCall ==
    /\ eval.fn = "parse_call" /\ ~eval.done
    /\ eval' = [eval EXCEPT !.res = parse_call(eval.arg), !.done = TRUE]
    /\ UNCHANGED <<cfg, store, now, mgr, cur, th, inbox, ops, ui>>

\* call.length_in_seconds() of the record parse_call returned.
CallLengthInSeconds ==
    /\ eval.fn = "parse_call" /\ eval.done /\ ~eval.res.raised
    /\ eval' = [fn |-> "length_in_seconds",
                arg |-> [raw |-> eval.arg, call |-> eval.res.call],
                res |-> length_in_seconds(eval.res.call), done |-> TRUE]
    /\ UNCHANGED <<cfg, store, now, mgr, cur, th, inbox, ops, ui>>

\* call.length_in_seconds() of the record after it was stored and read back.
CallLengthOfStored ==
    /\ eval.fn = "parse_call" /\ eval.done /\ ~eval.res.raised
    /\ eval' = [fn |-> "length_in_seconds",
                arg |-> [raw |-> eval.arg, call |-> ReadBack(eval.res.call)],
                res |-> length_in_seconds(ReadBack(eval.res.call)), done |-> TRUE]
    /\ UNCHANGED <<cfg, store, now, mgr, cur, th, inbox, ops, ui>>

\* _mask_content(content) returns.
CallMaskContent ==
    /\ eval.fn = "mask_content" /\ ~eval.done
    /\ eval' = [eval EXCEPT !.res = mask_content(eval.arg.mask, eval.arg.content),
                            !.done = TRUE]
    /\ UNCHANGED <<cfg, store, now, mgr, cur, th, inbox, ops, ui>>

PureNext ==
    \/ CallParseCall
    \/ CallLengthInSeconds
    \/ CallLengthOfStored
    \/ CallMaskContent

PureSpec == PureInit /\ [][PureNext]_vars

(***************************************************************************)
(* Properties                                                              *)
(***************************************************************************)
\* The thread is inside _check_and_update_cache and has not yet reset
\* self.updating.
Running(t) ==
    th[t].pc \in {"c_probe", "c_down", "c_read", "c_check", "c_latest", "c_fetch",
                  "c_write", "c_notify", "c_fin"}

\* The thread is inside _check_and_update_cache.
InCycle(t) == Running(t) \/ th[t].pc = "c_stamp"

\* The call is a row of the store, field by field.
InStore(s, c) ==
    /\ s.file = "ok"
    /\ c.id \in DOMAIN s.rows
    /\ RowToCall(c.id, s.rows[c.id]) = c

\* C1: on one manager at most one refresh cycle executes at any moment.
C1_SingleWriter ==
    \A m \in Mgrs :
        Cardinality({ t \in AllThreads : Running(t) /\ th[t].m = m }) <= 1

\* C2: when a cycle is about to post CacheUpdated to the app, every call the
\* message carries is a row of the store.
C2_NotifiedCallsAreStored ==
    \A t \in AllThreads :
        (th[t].pc = "c_notify" /\ HasApp(th[t].m))
            => \A k \in 1..Len(th[t].fetched) : InStore(store, th[t].fetched[k])

\* C3: no step of any thread removes a call id from the store.
C3_IdsNeverShrink ==
    [][DOMAIN store.rows \subseteq DOMAIN store'.rows]_vars

\* C3 witness: a row cached before the program started is still stored next
\* to a row written by a later upsert.
C3_Witness ==
    \E i, j \in DOMAIN store.rows :
        store.rows[i].cached_at = 0 /\ store.rows[j].cached_at > 0

\* The manager start_background_update runs on in thread t.
SelfOf(t) == IF th[t].m = "global" THEN cur ELSE th[t].m

\* Thread t takes a step.
Moves(t) == th'[t] # th[t]

\* Every cycle that has begun ends.
C4_CycleEnds == \A t \in AllThreads : InCycle(t) ~> ~InCycle(t)

\* The step by which a cycle stops running leaves updating == False.
C4_DoneResetsFlag ==
    [][\A t \in AllThreads :
          (Running(t) /\ ~Running(t)') => ~mgr'[th[t].m].updating]_vars

\* A start that finds the manager not updating and not offline is accepted.
C4_StartAccepted ==
    [][\A t \in AllThreads :
          (th[t].pc = "s_guard" /\ Moves(t)
             /\ ~mgr[SelfOf(t)].updating /\ ~mgr[SelfOf(t)].offline)
          => th'[t].pc = "s_set"]_vars

\* An accepted start begins a new cycle on its manager, and returns True.
C4_StartRunsCycle ==
    [][\A t \in AllThreads :
          (th[t].pc = "s_set" /\ Moves(t))
          => /\ mgr'[th[t].m].updating
             /\ \E u \in AllThreads :
                   th'[u].pc = "c_probe" /\ th[u].pc # "c_probe" /\ th'[u].m = th[t].m
             /\ (th'[t].pc = "s_ret" => th'[t].ok)]_vars

\* In foreground mode True is returned by the step that ends the cycle.
C4_ForegroundReturnsAfterCycle ==
    [][\A t \in AllThreads :
          (th'[t].pc = "s_ret" /\ th[t].pc # "s_ret" /\ th'[t].ok /\ mgr[th'[t].m].fg)
          => (InCycle(t) /\ ~InCycle(t)')]_vars

\* C4: every refresh cycle reaches Done with updating == False, a start
\* issued then is accepted and runs a new cycle, and in foreground mode the
\* cycle has finished when start returns.
C4_CycleReachesDone ==
    /\ C4_CycleEnds
    /\ C4_DoneResetsFlag
    /\ C4_StartAccepted
    /\ C4_StartRunsCycle
    /\ C4_ForegroundReturnsAfterCycle

\* C4 witness: a manager that has completed a cycle is running the next one.
C4_Witness ==
    \E t \in AllThreads :
        /\ Running(t)
        /\ mgr[th[t].m].last_update > 0
        /\ mgr[th[t].m].updating

\* C5: vapi_calls never raises into its caller.
C5_NeverRaises == \A t \in AllThreads : th[t].pc # "g_raised"

\* The list holds exactly the rows of the store, one call per row.
IsListingOf(calls, s) ==
    /\ Len(calls) = Cardinality(DOMAIN s.rows)
    /\ { calls[k] : k \in 1..Len(calls) }
         = { RowToCall(i, s.rows[i]) : i \in DOMAIN s.rows }

HasRows(s) == s.file = "ok" /\ DOMAIN s.rows # {}

NoData(s) == s.file = "missing" \/ (s.file = "ok" /\ DOMAIN s.rows = {})

\* C6: with rows in the cache and the offline flag set or the probe failed,
\* the cache read returns from vapi_calls with exactly the stored rows, after
\* one probe and no remote request.
C6_OfflineServesCache ==
    [][\A t \in AllThreads :
          (th[t].pc = "g_read" /\ Moves(t) /\ (th[t].offline \/ ~th[t].net)
             /\ HasRows(store))
          => /\ th'[t].pc = "g_ret"
             /\ IsListingOf(th'[t].ret, store)
             /\ th'[t].gets = 0
             /\ th'[t].probes = 1]_vars

\* C6 witness: the network is down, the flag unset, two cached rows returned.
C6_Witness ==
    \E t \in AllThreads :
        /\ th[t].pc = "g_ret"
        /\ ~th[t].offline /\ ~th[t].net
        /\ Len(th[t].ret) = 2
        /\ IsListingOf(th[t].ret, store)

\* C7: with no cached data and the offline flag set or the probe failed,
\* vapi_calls returns the empty list and issues no remote request.
C7_OfflineNoCacheIsEmpty ==
    [][\A t \in AllThreads :
          (th[t].pc = "g_read" /\ Moves(t) /\ (th[t].offline \/ ~th[t].net)
             /\ NoData(store))
          => /\ th'[t].pc = "g_ret"
             /\ th'[t].ret = <<>>
             /\ th'[t].gets = 0]_vars

\* C7 witness: the flag is set, the network is up, there is no cache file.
C7_Witness ==
    \E t \in AllThreads :
        /\ th[t].pc = "g_ret"
        /\ th[t].offline /\ th[t].net
        /\ store.file = "missing"
        /\ th[t].ret = <<>>

\* The vapi_calls call of thread t had a cache, was online, and its remote
\* check named a most recent id that differs from the newest cached id.
SawNewerRemote(t) ==
    /\ th[t].cached.kind = "list"
    /\ ~th[t].offline /\ th[t].net
    /\ th[t].rid \in AllIds /\ th[t].lid \in AllIds
    /\ th[t].rid # th[t].lid

\* C8 as claimed: such a call has done a full fetch and the store's ids are
\* the union of the cached and the fetched ids, the fetched calls stored.
C8_StoreIsUnion ==
    \A t \in AllThreads :
        (th[t].pc = "g_ret" /\ SawNewerRemote(t))
        => /\ th[t].fulls = 1
           /\ DOMAIN store.rows = Ids(th[t].cached.calls) \cup Ids(th[t].fetched)
           /\ \A k \in 1..Len(th[t].fetched) : InStore(store, th[t].fetched[k])

\* A remote id that differs from every newest cached call leads to the fetch.
C8_DecidesFetch ==
    [][\A t \in AllThreads :
          (th[t].pc = "g_latest" /\ Moves(t)
             /\ \A l \in get_latest_cached_call(store) :
                    l.kind = "call" /\ l.id # th[t].rid)
          => th'[t].pc = "g_fetch"]_vars

\* The fetch step issues one full request and leaves the store alone.
C8_FetchIssued ==
    [][\A t \in AllThreads :
          (th[t].pc = "g_fetch" /\ Moves(t))
          => th'[t].fulls = th[t].fulls + 1 /\ store' = store]_vars

\* The upsert step leaves the rows unchanged, or makes the id set the union
\* with the fetched calls stored and every other row untouched.
C8_UpsertIsUnion ==
    [][\A t \in AllThreads :
          (th[t].pc = "g_write" /\ Moves(t))
          => \/ store'.rows = store.rows
             \/ /\ DOMAIN store'.rows = (DOMAIN store.rows) \cup Ids(th[t].fetched)
                /\ \A k \in 1..Len(th[t].fetched) : InStore(store', th[t].fetched[k])
                /\ \A i \in (DOMAIN store.rows) \ Ids(th[t].fetched) :
                       store'.rows[i] = store.rows[i]]_vars

\* C8 amended: a differing remote id leads to one full fetch; the upsert that
\* follows a successful fetch makes the store the union with shared ids
\* overwritten, or, when it fails, leaves the rows unchanged.
C8_FullFetchThenUnionOrUnchanged ==
    /\ C8_DecidesFetch
    /\ C8_FetchIssued
    /\ C8_UpsertIsUnion

\* C8 witness: one cached call, two fetched: the shared id overwritten with
\* new values, the other id added.
C8_Witness ==
    \E t \in AllThreads :
        /\ th[t].pc = "g_ret" /\ SawNewerRemote(t)
        /\ Len(th[t].cached.calls) = 1 /\ Len(th[t].fetched) = 2
        /\ \A k \in 1..2 : InStore(store, th[t].fetched[k])
        /\ \E k \in 1..2 : /\ th[t].fetched[k].id = th[t].cached.calls[1].id
                           /\ th[t].fetched[k] # th[t].cached.calls[1]

\* C9: a call that had a cache, was online, and whose remote check named the
\* id get_latest_cached_call returned, returns the cached list and has done
\* no full fetch and no store write.
C9_SameNewestServesCache ==
    \A t \in AllThreads :
        (th[t].pc = "g_ret" /\ th[t].cached.kind = "list"
           /\ ~th[t].offline /\ th[t].net
           /\ th[t].rid \in AllIds /\ th[t].lid = th[t].rid)
        => /\ th[t].ret = th[t].cached.calls
           /\ th[t].fulls = 0
           /\ th[t].writes = 0

\* C9 witness: two cached calls, the newest by start is not the first listed.
C9_Witness ==
    \E t \in AllThreads :
        /\ th[t].pc = "g_ret"
        /\ th[t].rid \in AllIds /\ th[t].lid = th[t].rid
        /\ Len(th[t].ret) = 2
        /\ th[t].ret[1].id # th[t].rid

\* C10: a call that found no cached data, was online and got the full
\* request's answer has called the upsert once and returns the fetched list.
C10_NoCacheReturnsFetched ==
    \A t \in AllThreads :
        (th[t].pc = "g_ret" /\ th[t].cached.kind = "none"
           /\ ~th[t].offline /\ th[t].net /\ th[t].got)
        => /\ th[t].fulls = 1
           /\ th[t].writes = 1
           /\ th[t].ret = th[t].fetched

\* A vapi_calls call of thread t that was online and whose full request failed.
FullFetchFailed(t) == th[t].fulls = 1 /\ ~th[t].got

\* A returning call that had a cache and whose remote check or full request
\* failed returns the cached list and has written nothing; one that had no
\* cache and whose full request failed returns the empty list.
C11_FallbackResult ==
    \A t \in AllThreads :
        (th[t].pc = "g_ret" /\ ~th[t].offline /\ th[t].net)
        => /\ (th[t].cached.kind = "list" /\ (th[t].rid = "err" \/ FullFetchFailed(t)))
                => (th[t].ret = th[t].cached.calls /\ th[t].writes = 0)
           /\ (th[t].cached.kind = "none" /\ FullFetchFailed(t))
                => (th[t].ret = <<>> /\ th[t].writes = 0)

\* The remote check and the full request leave the store as it is.
C11_RequestsLeaveStore ==
    [][\A t \in AllThreads :
          (th[t].pc \in {"g_check", "g_fetch"} /\ Moves(t)) => store' = store]_vars

\* C11: when the remote check or the full fetch fails, vapi_calls returns the
\* cached list (the empty list when there is no cache) and does not write the
\* store.
C11_RemoteFailureFallsBack ==
    /\ []C11_FallbackResult
    /\ C11_RequestsLeaveStore

\* C11 witness: two cached calls, the check named a newer remote call, the
\* full request failed, the two cached calls are returned.
C11_Witness ==
    \E t \in AllThreads :
        /\ th[t].pc = "g_ret" /\ SawNewerRemote(t)
        /\ FullFetchFailed(t)
        /\ Len(th[t].cached.calls) = 2
        /\ th[t].ret = th[t].cached.calls

\* A thread whose remote check answered with zero records has made no full
\* request and no write, and is returning the cached list (vapi_calls) or is
\* at the end of its cycle.
C12_EmptyCheckNoFetch ==
    \A t \in AllThreads :
        th[t].rid = "empty"
        => /\ th[t].fulls = 0 /\ th[t].writes = 0
           /\ th[t].pc \in {"g_ret", "c_fin", "c_stamp"}
           /\ (th[t].pc = "g_ret"
                 => th[t].cached.kind = "list" /\ th[t].ret = th[t].cached.calls)

\* Such a thread posts no notification.
C12_EmptyCheckNoNotify ==
    [][\A t \in AllThreads :
          (th[t].rid = "empty" /\ Moves(t)) => inbox' = inbox]_vars

\* C12: a remote check that returns zero records leaves the cache as up to
\* date: no full fetch in vapi_calls or in a cycle, vapi_calls returns the
\* cached list, no notification is posted.
C12_EmptyCheckServesCache ==
    /\ []C12_EmptyCheckNoFetch
    /\ C12_EmptyCheckNoNotify

\* C12 witness: one thread returns its cached list from vapi_calls after an
\* empty check while a cycle ends after an empty check.
C12_Witness ==
    \E t, u \in AllThreads :
        /\ th[t].pc = "g_ret" /\ th[t].rid = "empty" /\ th[t].ret # <<>>
        /\ th[u].pc = "c_fin" /\ th[u].rid = "empty"

\* Thread t executes start_background_update or the cycle.
InManager(t) ==
    th[t].pc \in {"s_guard", "s_set", "s_ret", "c_probe", "c_down", "c_read", "c_check",
                  "c_latest", "c_fetch", "c_write", "c_notify", "c_fin", "c_stamp"}

\* A manager with the offline flag set is never updating; a thread in its
\* start or its cycle is at the guard or returning False, and has issued no
\* probe, no request and no write.
C13_OfflineIdle ==
    /\ \A m \in Mgrs : mgr[m].offline => ~mgr[m].updating
    /\ \A t \in AllThreads :
          (InManager(t) /\ mgr[SelfOf(t)].offline)
          => /\ th[t].pc \in {"s_guard", "s_ret", "c_probe"}
             /\ (th[t].pc = "s_ret" => ~th[t].ok)
             /\ th[t].probes = 0 /\ th[t].gets = 0
             /\ th[t].fulls = 0 /\ th[t].writes = 0

\* The guard of start and the guard of the cycle end the call at once.
C13_GuardEnds ==
    [][\A t \in AllThreads :
          (th[t].pc \in {"s_guard", "c_probe"} /\ Moves(t) /\ mgr[SelfOf(t)].offline)
          => /\ th'[t].pc \in {"s_ret", "idle"}
             /\ store' = store /\ inbox' = inbox
             /\ ~mgr'[SelfOf(t)].updating]_vars

\* C13: with the offline flag set, start_background_update returns False, the
\* manager stays not updating, and neither start nor the cycle probes,
\* requests or writes.
C13_OfflineGuard ==
    /\ []C13_OfflineIdle
    /\ C13_GuardEnds

\* C13 witness: start returns False on an offline manager.
C13_Witness ==
    \E t \in AllThreads :
        /\ th[t].pc = "s_ret" /\ ~th[t].ok
        /\ mgr[th[t].m].offline /\ ~mgr[th[t].m].updating

\* A cycle that found the network unreachable has probed once and has issued
\* no request and no write.
C14_DownAfterOneProbe ==
    \A t \in AllThreads :
        th[t].pc = "c_down"
        => /\ th[t].probes = 1 /\ th[t].gets = 0
           /\ th[t].fulls = 0 /\ th[t].writes = 0

\* Its next step ends the cycle: no store write, no notification.
C14_DownEnds ==
    [][\A t \in AllThreads :
          (th[t].pc = "c_down" /\ Moves(t))
          => /\ ~InCycle(t)'
             /\ store' = store /\ inbox' = inbox
             /\ ~mgr'[th[t].m].updating]_vars

\* C14: with the flag unset and the network unreachable a cycle probes once
\* and reaches Done without remote check, full fetch, write or notification.
C14_UnreachableCycleDoesNothing ==
    /\ []C14_DownAfterOneProbe
    /\ C14_DownEnds

\* C14 witness: a cycle of a manager that is not offline found the network
\* unreachable.
C14_Witness ==
    \E t \in AllThreads :
        th[t].pc = "c_down" /\ ~mgr[th[t].m].offline /\ mgr[th[t].m].updating

\* C15: the step that ends a cycle whose probe found the network unreachable
\* leaves the time of that cycle in last_update.
C15_UnreachableCycleStamps ==
    [][\A t \in AllThreads :
          (th[t].pc = "c_down" /\ Moves(t)) => mgr'[th[t].m].last_update = now]_vars

\* A cycle about to notify has made one full request that returned calls.
C16_NotifyAfterFetch ==
    \A t \in AllThreads :
        th[t].pc = "c_notify" => th[t].fulls = 1 /\ th[t].fetched # <<>>

\* A message is posted only by the notify step of such a cycle.
C16_PostedByNotify ==
    [][inbox' # inbox
         => \E t \in AllThreads :
               /\ th[t].pc = "c_notify" /\ Moves(t)
               /\ th[t].fulls = 1 /\ th[t].fetched # <<>>
               /\ inbox' = Append(inbox, th[t].fetched)]_vars

\* C16: CacheUpdated is posted only in a cycle whose full fetch returned
\* calls; every other way a cycle ends posts nothing.
C16_NotifyOnlyAfterFetch ==
    /\ []C16_NotifyAfterFetch
    /\ C16_PostedByNotify

\* C16 witness: a message has been posted.
C16_Witness == inbox # <<>>

\* C17: a cycle that fetched calls and upserted them posts CacheUpdated with
\* the fetched list, on the app's manager and on the module-level manager.
C17_FetchedCycleNotifiesUI ==
    [][\A t \in AllThreads :
          (th[t].pc = "c_notify" /\ Moves(t)
             /\ \A k \in 1..Len(th[t].fetched) : InStore(store, th[t].fetched[k]))
          => inbox' = Append(inbox, th[t].fetched)]_vars

\* Thread t is in the fetch-and-upsert sequence of a cycle.
InFetchUpsert(t) == th[t].pc \in {"c_fetch", "c_write"}

\* C18: the cycle of the module-level manager and the cycle of the app's
\* manager are never both in their fetch-and-upsert sequence.
C18_OneRefreshTask ==
    \A t, u \in AllThreads :
        ~(/\ InFetchUpsert(t) /\ th[t].m = "app"
          /\ InFetchUpsert(u) /\ th[u].m \in {"mod0", "mod1"})

\* C19: an upsert that is applied leaves, for every id of its batch, the
\* fields of the batch's last record with that id and the batch's cached_at
\* (the same for all its rows), and leaves every other row as it was.
C19_LastWriteWins ==
    [][\A t \in AllThreads :
          (th[t].pc \in {"g_write", "c_write"} /\ Moves(t) /\ store'.rows # store.rows)
          => /\ DOMAIN store'.rows = (DOMAIN store.rows) \cup Ids(th[t].fetched)
             /\ \A i \in Ids(th[t].fetched) :
                   store'.rows[i] = [val |-> LastOf(th[t].fetched, i).val,
                                     start |-> LastOf(th[t].fetched, i).start,
                                     cached_at |-> now]
             /\ \A i \in (DOMAIN store.rows) \ Ids(th[t].fetched) :
                   store'.rows[i] = store.rows[i]]_vars

\* C19 witness: a cached call was overwritten by a fetched call with the same
\* id and other fields; the row carries the new fields and the batch's time,
\* a row of another id still carries its own.
C19_Witness ==
    \E t \in AllThreads :
        /\ th[t].pc = "g_ret" /\ th[t].cached.kind = "list" /\ th[t].writes = 1
        /\ \E k \in 1..Len(th[t].cached.calls), j \in 1..Len(th[t].fetched) :
              /\ th[t].cached.calls[k].id = th[t].fetched[j].id
              /\ th[t].cached.calls[k].val # th[t].fetched[j].val
              /\ InStore(store, th[t].fetched[j])
              /\ store.rows[th[t].fetched[j].id].cached_at = now - 1
        /\ \E i \in DOMAIN store.rows : store.rows[i].cached_at = 0

\* C20: every list get_cached_calls can return has each row written by a
\* later batch before each row written by an earlier batch.
C20_ListedNewestBatchFirst ==
    \A c \in get_cached_calls(store, 0) :
        c.kind = "list"
        => \A i, j \in 1..Len(c.calls) :
              i < j => store.rows[c.calls[i].id].cached_at
                         >= store.rows[c.calls[j].id].cached_at

\* C20 witness: vapi_calls returned two calls: the first was overwritten by a
\* later batch and has the smaller start, the second is from the first batch.
C20_Witness ==
    \E t \in AllThreads :
        /\ th[t].pc = "g_ret" /\ Len(th[t].ret) = 2 /\ th[t].writes = 0
        /\ th[t].ret = th[t].cached.calls
        /\ InStore(store, th[t].ret[1]) /\ InStore(store, th[t].ret[2])
        /\ store.rows[th[t].ret[1].id].cached_at > 0
        /\ store.rows[th[t].ret[2].id].cached_at = 0
        /\ th[t].ret[1].start < th[t].ret[2].start

(***************************************************************************)
(* The store's reads and init_db                                           *)
(***************************************************************************)
\* C21: get_cached_calls gives its "no data" marker (None) only when the cache
\* file does not exist; an existing table without rows gives another result.
C21_NoDataOnlyWhenMissing ==
    \A c \in get_cached_calls(store, 0) : c.kind = "none" => store.file = "missing"

\* C22: get_latest_cached_call gives None when the store is missing or
\* holds no row, and otherwise a stored row whose start is, as an instant, the
\* latest of all stored rows.
C22_LatestIsMaxStart ==
    \A l \in get_latest_cached_call(store) :
        /\ NoData(store) => l.kind = "none"
        /\ HasRows(store)
           => /\ l.kind = "call"
              /\ l.id \in DOMAIN store.rows
              /\ \A j \in DOMAIN store.rows : store.rows[j].start <= store.rows[l.id].start

\* C23: neither read of the store raises, whatever the cache file is.
C23_ReadsNeverRaise ==
    /\ \A c \in get_cached_calls(store, 0) : c.kind # "raise"
    /\ \A l \in get_latest_cached_call(store) : l.kind # "raise"

\* C24: a vapi_calls call whose full request succeeded returns the fetched
\* list, whatever became of the upsert.
C24_FailedWriteKeepsFetch ==
    \A t \in AllThreads :
        (th[t].pc = "g_ret" /\ th[t].got) => th[t].ret = th[t].fetched

\* Thread t calls init_db.
InitDbStep(t) == th[t].pc = "idle" /\ th'[t].pc \in {"i_ret", "i_raised"}

\* C25: a call of init_db, wherever it falls between the steps of the other
\* thread's upserts, leaves every stored row as it was; once a call has
\* returned True the table exists; a second call changes nothing more.
C25_InitDbKeepsRows ==
    /\ [](/\ \A t \in AllThreads : (th[t].pc = "i_ret" /\ th[t].ok) => store.file = "ok"
          /\ \A e1, e2 \in {"ok", "openfail"} :
                LET once == init_db(store, e1) IN
                /\ once.store.rows = store.rows
                /\ (once.ok => once.store.file = "ok")
                /\ (once.ok => init_db(once.store, e2).store = once.store))
    /\ [][\A t \in AllThreads :
            InitDbStep(t)
            => /\ store'.rows = store.rows
               /\ (th'[t].pc = "i_ret" /\ th'[t].ok) => store'.file = "ok"]_vars

\* C25 witness: init_db returned True while the other thread, having fetched,
\* is about to upsert, and the store holds a row.
C25_Witness ==
    \E t, u \in AllThreads :
        /\ th[t].pc = "i_ret" /\ th[t].ok
        /\ th[u].pc = "g_write"
        /\ DOMAIN store.rows # {}

\* C26: init_db returns False, and does not raise, when the store cannot be
\* initialized, and an upsert in that state returns without writing and
\* without raising.
C26_InitFailureReturnsFalse ==
    /\ \A t \in AllThreads : th[t].pc # "i_raised"
    /\ \A env \in {"ok", "openfail"} :
          LET i == init_db(store, env)
              w == cache_calls(store, <<>>, now, env) IN
          /\ ~i.raised
          /\ (~i.ok => ~w.raised /\ w.store = store)

(***************************************************************************)
(* The probe, the requests, the credential                                 *)
(***************************************************************************)
IsResponse(h) == h \in {"response_2xx", "response_5xx"}

\* C27: is_network_available returns True after any response and False, not
\* raising, after a network error, a timeout or any other exception; a caller
\* of the probe goes on with that boolean.
C27_ProbeTotalBoolean ==
    /\ \A h \in HeadResults :
          LET n == is_network_available(h) IN ~n.raised /\ (n.up <=> IsResponse(h))
    /\ \A t \in AllThreads :
          th[t].head # ""
          => /\ th[t].pc \in {"g_read", "c_read", "c_down"}
             /\ th[t].probes = 1
             /\ (th[t].pc = "g_read" => (th[t].net <=> IsResponse(th[t].head)))
             /\ (th[t].pc = "c_read" => IsResponse(th[t].head))
             /\ (th[t].pc = "c_down" => ~IsResponse(th[t].head))

\* C27 witness: the probe of a vapi_calls call met an error status and the
\* call goes on as reachable.
C27_Witness ==
    \E t \in AllThreads :
        /\ th[t].pc = "g_read" /\ th[t].head = "response_5xx" /\ th[t].net

\* An unexpected exception in the probe of a cycle gives False.
C27_WitnessException ==
    \E t \in AllThreads :
        /\ th[t].pc = "c_down" /\ th[t].head = "Exception" /\ ~th[t].net

\* The remote answers that are failures: no response or an undecodable one,
\* and a response with an error status.
RemoteFailures == {"err", "bad_empty"}

\* C28: a failed short-lookback request is told to the caller as an error,
\* never as "no new calls".
C28_RemoteFailureIsDistinct ==
    \A t \in AllThreads :
        th[t].rid \in RemoteFailures => CheckReport(th[t].rid) = "error"

C29_WitnessCycle ==
    \E t \in AllThreads :
        /\ ~cfg.key /\ th[t].pc = "c_fin" /\ th[t].net /\ inbox = <<>>

\* The steps of vapi_calls and of the cycle that come after the probe and
\* decide about, or make, a request.
FetchDecision == {"g_skip", "g_check", "g_latest", "g_fetch", "g_write",
                  "c_read", "c_check", "c_latest", "c_fetch", "c_write", "c_notify"}

\* C30: a thread that has not probed yet has read nothing and requested
\* nothing; a thread at a fetch decision has probed once and found the
\* network reachable; after an unreachable probe nothing is requested or
\* compared.
C30_ProbeBeforeFetchDecision ==
    \A t \in AllThreads :
        /\ th[t].pc \in {"g_probe", "c_probe"}
           => /\ th[t].probes = 0 /\ th[t].gets = 0 /\ th[t].fulls = 0
              /\ th[t].rid = "" /\ th[t].lid = "" /\ th[t].cached = NoList
        /\ th[t].pc \in FetchDecision => th[t].probes = 1 /\ th[t].net
        /\ (th[t].gets > 0 \/ th[t].rid # "") => th[t].probes = 1 /\ th[t].net
        /\ (th[t].probes = 1 /\ ~th[t].net)
           => /\ th[t].pc \in {"g_read", "g_ret", "g_raised", "c_down"}
              /\ th[t].gets = 0 /\ th[t].fulls = 0 /\ th[t].writes = 0
              /\ th[t].rid = "" /\ th[t].lid = ""

\* C30 witness: a vapi_calls call without the offline flag whose probe found
\* the network unreachable returns the cached list, having requested nothing.
C30_Witness ==
    \E t \in AllThreads :
        /\ th[t].pc = "g_ret" /\ th[t].probes = 1 /\ ~th[t].net /\ ~th[t].offline
        /\ th[t].cached.kind = "list" /\ th[t].ret = th[t].cached.calls
        /\ th[t].gets = 0

(***************************************************************************)
(* The status line                                                         *)
(***************************************************************************)
\* Every call has returned, every cycle has ended, every message is handled.
Quiescent ==
    /\ \A t \in AllThreads : th[t].pc = "idle"
    /\ \A m \in Mgrs : ~mgr[m].updating
    /\ ui.handled = Len(inbox)

\* C40: once the cycle a refresh began has ended and nothing is left to run,
\* the status line no longer shows "updating...".
C40_StatusLeavesUpdating ==
    (cfg.ui /\ Quiescent) => ui.status # "updating..."

(***************************************************************************)
(* The fast path, the serve-cache outcomes, the two reconciliations        *)
(***************************************************************************)
\* Thread u is started by the step: a new thread about to call
\* _cache_manager.start_background_update().
StartedBy(u) == th[u].pc = "idle" /\ th'[u].pc = "s_guard" /\ th'[u].m = "global"

\* C37: a vapi_calls call with skip_api_check that found a cached list and a
\* reachable network sends no request and returns the cached list; its skip
\* step leaves the managers alone and starts one thread calling start on the
\* module's manager if that manager is not updating, and no thread otherwise.
C37_FastPath ==
    /\ [](\A t \in AllThreads :
            (th[t].pc = "g_ret" /\ th[t].skip /\ th[t].cached.kind = "list"
               /\ th[t].net /\ ~th[t].offline)
            => /\ th[t].gets = 0 /\ th[t].fulls = 0 /\ th[t].writes = 0
               /\ th[t].ret = th[t].cached.calls)
    /\ [][\A t \in AllThreads :
            (th[t].pc = "g_skip" /\ Moves(t))
            => /\ th'[t].pc = "g_ret"
               /\ mgr' = mgr /\ cur' = cur /\ store' = store /\ inbox' = inbox
               /\ Cardinality({u \in AllThreads : StartedBy(u)})
                    = IF mgr[cur].updating THEN 0 ELSE 1
               /\ \A u \in AllThreads \ {t} : StartedBy(u) \/ th'[u] = th[u]]_vars

\* C37 witness: the fast path returned the cached list while the module's
\* manager was updating, so that no further thread was started.
C37_Witness ==
    \E t \in AllThreads :
        /\ th[t].pc = "g_ret" /\ th[t].skip /\ th[t].net /\ ~th[t].offline
        /\ th[t].ret = th[t].cached.calls /\ th[t].ret # <<>>
        /\ mgr[cur].updating
        /\ \A u \in AllThreads : th[u].pc # "s_guard"

\* The fast path started a thread that is about to call start.
C37_WitnessStarted ==
    \E t, u \in AllThreads :
        /\ th[t].pc = "g_ret" /\ th[t].skip /\ th[t].ret # <<>>
        /\ th[u].pc = "s_guard" /\ th[u].m = "global"

\* C38: a vapi_calls call that returns without a successful full fetch, and
\* a cycle that ends without a fetched list, has called no upsert; only the
\* upsert steps and init_db change the store.
C38_ServeCacheLeavesStore ==
    /\ [](\A t \in AllThreads :
            /\ (th[t].pc = "g_ret" /\ ~th[t].got) => th[t].writes = 0
            /\ (th[t].pc \in {"c_down", "c_fin", "c_stamp"} /\ th[t].fetched = <<>>)
               => th[t].writes = 0)
    /\ [][\A t \in AllThreads :
            (Moves(t) /\ th[t].pc \notin {"idle", "g_write", "c_write"})
            => store' = store]_vars

\* C38 witness: a cycle found the newest remote call to be the newest cached
\* one and is ending, the store holding what it held.
C38_Witness ==
    \E t \in AllThreads :
        /\ th[t].pc = "c_fin" /\ th[t].rid # "" /\ th[t].rid = th[t].lid
        /\ th[t].writes = 0 /\ th[t].fulls = 0
        /\ \A i \in DOMAIN store.rows : store.rows[i].cached_at = 0
        /\ DOMAIN store.rows # {}

\* The online branch of vapi_calls (no skip_api_check) run alone on store s,
\* the short-lookback request giving r, the full request giving f, the upsert
\* meeting env: whether the full request is made, and the store it leaves.
vapi_callsOnline(s, r, f, env) ==
    LET fetch == [fetch |-> TRUE,
                  store |-> IF f.ok THEN cache_calls(s, f.calls, now, env).store ELSE s]
        serve == [fetch |-> FALSE, store |-> s]
    IN  { IF c.kind = "raise" THEN serve
          ELSE IF c.kind = "none" THEN fetch
          ELSE IF CheckReport(r) \in {"error", "up to date"} THEN serve
          ELSE IF l.kind = "raise" \/ SameNewest(l, r) THEN serve
          ELSE fetch
          : c \in get_cached_calls(s, 0), l \in get_latest_cached_call(s) }

\* The refresh cycle past its probe, run alone on the same inputs.
CycleOnline(s, r, f, env) ==
    LET fetch == [fetch |-> TRUE,
                  store |-> IF f.ok /\ f.calls # <<>>
                            THEN cache_calls(s, f.calls, now, env).store ELSE s]
        serve == [fetch |-> FALSE, store |-> s]
    IN  { IF c.kind = "raise" THEN serve
          ELSE IF c.kind = "none" THEN fetch
          ELSE IF CheckReport(r) \in {"error", "up to date"} THEN serve
          ELSE IF l.kind = "raise" \/ SameNewest(l, r) THEN serve
          ELSE fetch
          : c \in get_cached_calls(s, 0), l \in get_latest_cached_call(s) }

\* C39: on every store and for every answer of the two requests and every
\* fate of the upsert, the online branch of vapi_calls and the refresh cycle
\* decide alike about the full request and leave the same store.
C39_ReconciliationsAgree ==
    \A r \in CheckResults, f \in FetchResults, env \in WriteEnvs :
        vapi_callsOnline(store, r, f, env) = CycleOnline(store, r, f, env)

\* What the steps of the two make of an empty fetched list on a machine
\* without a cache file: vapi_calls has created the file, the cycle has not.
C39_EmptyFetchInSteps ==
    \A t \in AllThreads :
        (th[t].fulls = 1 /\ th[t].fetched = <<>> /\ th[t].pc \in {"g_ret", "c_fin"}
           /\ cfg.threads = {1} /\ ops = 1 /\ cfg.key)
        => (store.file = "missing" \/ th[t].writes = 0 \/ ~th[t].got)

\* C31: the upsert of a batch is one transaction. The table other connections
\* read (listAll, latestByStartTime) changes only from the rows before a batch
\* to the rows after the whole batch, never to a part of it, and a batch whose
\* write fails at any statement leaves none of its rows.
BatchOf(t) == th[t].pc \in {"c_write", "g_write"}

C31_NoPartOfBatch ==
    \A t \in Threads :
       BatchOf(t) =>
          \A k \in 0..Len(th[t].fetched) :
             Rollback(store.rows, Pending(store.rows, th[t].fetched, k, now)) = store.rows

C31_WitnessWhole ==
    \E t \in Threads :
       /\ th[t].writes = 1 /\ Len(th[t].fetched) = 2
       /\ \A j \in 1..2 : th[t].fetched[j].id \in DOMAIN store.rows

\* C33: after any sequence of upserts get_cache_stats reports call_count
\* equal to the number of ids stored, oldest_call and newest_call equal to the
\* cached_at of the row cached first and of the row cached last (None when
\* the table has no rows); without a store file it reports exists False and
\* zero counts; and it leaves the store as it found it.
C33_StatsDescribeStore ==
    LET st == get_cache_stats(store) IN
    /\ st.store = store
    /\ store.file = "missing" =>
          /\ ~st.exists /\ st.call_count = 0
          /\ st.oldest_call = None /\ st.newest_call = None
    /\ store.file = "ok" =>
          /\ st.exists
          /\ st.call_count = Cardinality(DOMAIN store.rows)
          /\ DOMAIN store.rows = {} => st.oldest_call = None /\ st.newest_call = None
          /\ DOMAIN store.rows # {} =>
                /\ \E i \in DOMAIN store.rows :
                      /\ st.oldest_call = IsoText(store.rows[i].cached_at)
                      /\ \A j \in DOMAIN store.rows :
                            store.rows[i].cached_at <= store.rows[j].cached_at
                /\ \E i \in DOMAIN store.rows :
                      /\ st.newest_call = IsoText(store.rows[i].cached_at)
                      /\ \A j \in DOMAIN store.rows :
                            store.rows[j].cached_at <= store.rows[i].cached_at

\* Two upserts have left rows cached at different times, one of them within
\* a second that is written with a fraction.
C33_Witness ==
    /\ store.file = "ok"
    /\ \E t \in Threads : th[t].writes = 1
    /\ \E i, j \in DOMAIN store.rows :
          /\ store.rows[i].cached_at < store.rows[j].cached_at
          /\ Len(IsoText(store.rows[j].cached_at)) = 2

\* C34: round trip. For any batch of records with distinct ids, upserting the
\* batch into an empty store and then listing the store returns exactly the
\* records of the batch, every field as written.
EmptyStores == { [file |-> "missing", rows |-> <<>>], [file |-> "ok", rows |-> <<>>] }

ListedAfterUpsert(s, batch) ==
    get_cached_calls(cache_calls(s, batch, now, "ok").store, 0)

C34_RoundTrip ==
    \A s \in EmptyStores, batch \in FetchLists(cfg) :
       \A l \in ListedAfterUpsert(s, batch) :
          /\ l.kind = "list"
          /\ Len(l.calls) = Len(batch)
          /\ { l.calls[k] : k \in 1..Len(l.calls) } = { batch[k] : k \in 1..Len(batch) }

\* The same for the batches that hold at least one record.
C34_RoundTripOfRecords ==
    \A s \in EmptyStores, batch \in FetchLists(cfg) \ { <<>> } :
       \A l \in ListedAfterUpsert(s, batch) :
          /\ l.kind = "list"
          /\ Len(l.calls) = Len(batch)
          /\ { l.calls[k] : k \in 1..Len(l.calls) } = { batch[k] : k \in 1..Len(batch) }

\* C32: for every record parse_call produces, and for the record read back
\* from the store, the duration End - Start is at least 0; it is 0 when End
\* equals Start (so when the remote object has no endedAt) and 300 seconds
\* when End is 5 minutes after Start.
C32_DurationNonNegative ==
    (eval.fn = "length_in_seconds" /\ eval.done) =>
       /\ eval.res >= 0
       /\ eval.arg.raw.endedAt \in {"absent", "equal"} => eval.res = 0
       /\ eval.arg.raw.endedAt = "plus5" => eval.res = 300

\* The durations of the records whose endedAt is not before createdAt.
C32_ZeroAndFiveMinutes ==
    (eval.fn = "length_in_seconds" /\ eval.done /\ eval.arg.raw.endedAt # "earlier") =>
       /\ eval.res >= 0
       /\ eval.arg.raw.endedAt \in {"absent", "equal"} => eval.res = 0
       /\ eval.arg.raw.endedAt = "plus5" => eval.res = 300

\* What parse_call returns for the keys that hold values or are absent.
ParsedAsDescribed(raw, c) ==
    /\ c.id = raw.id
    /\ raw.customer \in {"absent", "nonumber"} => c.Caller = ""
    /\ raw.artifact = "absent" => c.Transcript = ""
    /\ raw.analysis \in {"absent", "empty"} => c.Summary = ""
    /\ raw.cost \in {"absent", "nototal"} => c.Cost = 0
    /\ raw.cost = "number" => c.Cost = 2
    /\ raw.cost = "total" => c.Cost = 7
    /\ raw.costBreakdown = "absent" => c.CostBreakdown = "{}"
    /\ raw.endedAt = "absent" => c.End.wall = c.Start.wall /\ c.End.off = c.Start.off
    /\ raw.endedReason = "absent" => c.EndedReason = ""
    /\ raw.endedReason = "customer-ended-call" => c.EndedReason = "Customer Ended"
    /\ raw.endedReason = "assistant-ended-call" => c.EndedReason = "Assistant Ended"
    /\ raw.endedReason = "system-ended-call" => c.EndedReason = "System Ended"
    /\ raw.endedReason = "error" => c.EndedReason = "Error"
    /\ raw.endedReason = "silence-timed-out" => c.EndedReason = "silence-timed-out"

\* C35: parse_call is total on the raw objects that carry an id and a
\* createdAt: it returns a record for each, with the defaults for the
\* optional keys that are missing, the total of a nested cost, the labels of
\* the four known end reasons, and every other end reason as it is.
C35_ParseCallTotal ==
    (eval.fn = "parse_call" /\ eval.done) =>
       /\ ~eval.res.raised
       /\ ParsedAsDescribed(eval.arg, eval.res.call)

\* The same whenever parse_call returns.
C35_ParsedWhenReturned ==
    (eval.fn = "parse_call" /\ eval.done /\ ~eval.res.raised) =>
       ParsedAsDescribed(eval.arg, eval.res.call)

\* The keys whose values the masking is said to hide: 'secret' as written,
\* and the keys that end with 'CallId' or 'ProviderId'.
StatedKeys ==
    { <<"s", "e", "c", "r", "e", "t">>,
      <<"a", "C", "a", "l", "l", "I", "d">>,
      <<"P", "r", "o", "v", "i", "d", "e", "r", "I", "d">> }

\* The same with 'secret' in any letter case.
AnyCaseKeys == StatedKeys \cup { <<"S", "e", "c", "r", "e", "t">> }

\* out is in with the value of every key of K, at every depth of objects and
\* lists, replaced by 'secret-masked', every GUID replaced by the GUID mask,
\* and nothing else changed.
RECURSIVE MaskedWith(_, _, _)
MaskedWith(in, out, K) ==
    IF in.t = "str"
    THEN out = IF in.s = "guid" THEN Str("xxx-xxx-xxx-xxx-xxx") ELSE in
    ELSE /\ out.t = in.t
         /\ Len(out.kids) = Len(in.kids)
         /\ \A j \in 1..Len(in.kids) :
               /\ out.kids[j].k = in.kids[j].k
               /\ IF in.t = "obj" /\ in.kids[j].k \in K
                  THEN out.kids[j].n = Str("secret-masked")
                  ELSE MaskedWith(in.kids[j].n, out.kids[j].n, K)

\* v with the value of every key of K replaced by r.
RECURSIVE Subst(_, _, _)
Subst(v, r, K) ==
    IF v.t = "str"
    THEN v
    ELSE [v EXCEPT !.kids =
            [j \in 1..Len(v.kids) |->
               IF v.t = "obj" /\ v.kids[j].k \in K
               THEN Kid(v.kids[j].k, r)
               ELSE Kid(v.kids[j].k, Subst(v.kids[j].n, r, K))]]

\* The values put in the place of the hidden ones.
OtherSecrets ==
    { Str("v2"), Str("guid"), List(<<Kid(<<>>, Str("v2"))>>),
      Obj(<<Kid(<<"n", "a", "m", "e">>, Str("v2"))>>) }

MaskContentDone == eval.fn = "mask_content" /\ eval.done

\* C36 as stated: with masking enabled, in JSON content the value of every
\* key that is 'secret' or ends with 'CallId' or 'ProviderId' is replaced by
\* 'secret-masked' at every depth and every other value that is not a GUID is
\* unchanged, so that contents differing only in those values are masked to
\* the same output; with masking disabled the content is returned unchanged.
C36_MaskingAsStated ==
    MaskContentDone =>
       /\ ~eval.arg.mask => eval.res = eval.arg.content
       /\ (eval.arg.mask /\ eval.arg.content.json) =>
             /\ MaskedWith(eval.arg.content.doc, eval.res.doc, StatedKeys)
             /\ \A r \in OtherSecrets :
                   mask_content(TRUE, [eval.arg.content EXCEPT
                                         !.doc = Subst(@, r, StatedKeys)]) = eval.res

\* C36, amended: the same with the key 'secret' compared ignoring letter case
\* (the value of 'Secret' or 'SECRET' is hidden too).
C36_Masking ==
    MaskContentDone =>
       /\ ~eval.arg.mask => eval.res = eval.arg.content
       /\ (eval.arg.mask /\ eval.arg.content.json) =>
             /\ MaskedWith(eval.arg.content.doc, eval.res.doc, AnyCaseKeys)
             /\ \A r \in OtherSecrets :
                   mask_content(TRUE, [eval.arg.content EXCEPT
                                         !.doc = Subst(@, r, AnyCaseKeys)]) = eval.res

\* Masking was enabled for an object that holds, in a list, an object with
\* the key 'Secret', and the value of that key is hidden in the output.
C36_Witness ==
    /\ MaskContentDone
    /\ eval.arg.mask
    /\ eval.arg.content =
         [json |-> TRUE,
          doc |-> Obj(<<Kid(<<"n", "a", "m", "e">>,
                            List(<<Kid(<<>>,
                                       Obj(<<Kid(<<"S", "e", "c", "r", "e", "t">>,
                                                 Str("v1"))>>))>>))>>)]
    /\ eval.res.doc =
         Obj(<<Kid(<<"n", "a", "m", "e">>,
                   List(<<Kid(<<>>,
                              Obj(<<Kid(<<"S", "e", "c", "r", "e", "t">>,
                                        Str("secret-masked"))>>))>>))>>)

====
